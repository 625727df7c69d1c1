--------------------------- MODULE SyncProjection ---------------------------
(***************************************************************************)
(* How the synchronised metadata of one account is projected into the      *)
(* server's canonical tables and back.  A push writes its sync entity and  *)
(* materialises it, with everything that waited for it, in one transaction *)
(* that the account's quota lock keeps apart from other pushes.  Server    *)
(* requests change the canonical tables and publish the change as sync     *)
(* entities.  Each create request checks its project first and writes in a *)
(* later transaction.                                                      *)
(*                                                                         *)
(* e.. fields are rows of sync_entities, c.. fields canonical rows.  A row *)
(* of status "dead" is a tombstone or has deleted_at set.                  *)
(***************************************************************************)
EXTENDS Naturals, FiniteSets, FiniteSetsExt, TLC

CONSTANTS
    Projects, Threads, Messages, Tasks, Schedules, Profiles,
    None,         \* an absent reference
    Scenes        \* bound: what one exploration writes, in which projects, by
                  \* which server requests

VARIABLES
    db,           \* the tables
    request,      \* a create request between its check and its transaction
    scene         \* bound: the exploration chosen

vars == <<db, request, scene>>

Status == {"none", "dead", "live"}
Live(row) == row.st = "live"
Dead(row) == [row EXCEPT !.st = "dead"]

(* A task keeps every revision as a row: cur is the newest one, `older` the *)
(* other projects in which a revision is not deleted.                       *)
NoTask == [st |-> "none", project |-> None, thread |-> None, older |-> {}]
NoSchedule == [st |-> "none", task |-> None, project |-> None, thread |-> None,
               profile |-> None, target |-> "device", enabled |-> FALSE]

Empty == [
    eP |-> [p \in Projects |-> [st |-> "none", threads |-> {}]],
    eT |-> [t \in Threads |-> [st |-> "none"]],
    eM |-> [m \in Messages |-> [st |-> "none", thread |-> None]],
    eK |-> [k \in Tasks |-> [st |-> "none", project |-> None, thread |-> None]],
    eS |-> [s \in Schedules |-> NoSchedule],
    eF |-> [f \in Profiles |-> [st |-> "none"]],
    cP |-> [p \in Projects |-> [st |-> "none"]],
    cT |-> [t \in Threads |-> [st |-> "none", project |-> None]],
    cM |-> [m \in Messages |-> [st |-> "none", thread |-> None]],
    cK |-> [k \in Tasks |-> NoTask],
    cS |-> [s \in Schedules |-> NoSchedule @@ [armed |-> FALSE]],
    cF |-> [f \in Profiles |-> [st |-> "none", binding |-> "device"]],
    strayed |-> {},
    ok |-> TRUE]

Refuse(s) == [s EXCEPT !.ok = FALSE]
Each(op(_, _), s, S) == FoldSet(op, s, S)

-----------------------------------------------------------------------------
(* Publishing a canonical row as a sync entity, or its deletion. *)
Tombstone(s, kind, ids) ==
    [s EXCEPT ![kind] =
        [x \in DOMAIN s[kind] |-> IF x \in ids THEN Dead(Empty[kind][x]) ELSE s[kind][x]]]

publish_canonical_project(s, p) ==
    IF ~Live(s.cP[p]) THEN s
    ELSE [s EXCEPT !.eP[p] =
            [st |-> "live",
             threads |-> {t \in Threads : Live(s.cT[t]) /\ s.cT[t].project = p}]]

InLiveProject(s, row) == Live(row) /\ Live(s.cP[row.project])

publish_canonical_thread(s, t) ==
    IF ~InLiveProject(s, s.cT[t]) THEN s
    ELSE [publish_canonical_project(s, s.cT[t].project) EXCEPT !.eT[t].st = "live"]

publish_canonical_message(s, m) ==
    IF ~(Live(s.cM[m]) /\ InLiveProject(s, s.cT[s.cM[m].thread])) THEN s
    ELSE [publish_canonical_thread(s, s.cM[m].thread) EXCEPT !.eM[m] = s.cM[m]]

(* The newest revision that is not deleted and whose project is live. *)
TaskHomes(s, k) ==
    IF InLiveProject(s, s.cK[k]) THEN {s.cK[k].project}
    ELSE {p \in s.cK[k].older : Live(s.cP[p])}

publish_canonical_task(s, k) ==
    IF TaskHomes(s, k) = {} THEN s
    ELSE [s EXCEPT !.eK[k] = [st |-> "live", thread |-> s.cK[k].thread,
                              project |-> CHOOSE p \in TaskHomes(s, k) : TRUE]]

publish_canonical_schedule(s, i) ==
    IF ~InLiveProject(s, s.cS[i]) THEN s
    ELSE [s EXCEPT !.eS[i] = [x \in DOMAIN NoSchedule |-> s.cS[i][x]]]

-----------------------------------------------------------------------------
(* Projecting a sync entity into the canonical tables. *)
Switched_armed(row, st) == [row EXCEPT !.st = st, !.enabled = FALSE]

Switched(row, st) == [row EXCEPT !.st = st, !.enabled = FALSE, !.armed = FALSE]

(* A revision of task k that is not deleted exists in project p. *)
TaskIn(s, k, p) == (Live(s.cK[k]) /\ s.cK[k].project = p) \/ p \in s.cK[k].older

Holds(row, e, profile) ==
    /\ Live(row) /\ row.task = e.task /\ row.project = e.project
    /\ row.thread = e.thread /\ row.target = e.target
    /\ row.profile = profile /\ row.enabled = e.enabled

(* A profile must be bound to the class of executor the schedule names. *)
Bound(s, f, target) == f # None => Live(s.cF[f]) /\ s.cF[f].binding = target

Projected(e, profile) ==
    [st |-> "live", task |-> e.task, project |-> e.project, thread |-> e.thread,
     target |-> e.target, profile |-> profile, enabled |-> e.enabled,
     armed |-> e.enabled /\ profile = e.profile]

materialize_schedule(s, i) ==
    LET e == s.eS[i]
        profile == IF Bound(s, e.profile, e.target) THEN e.profile ELSE None
    IN CASE e.st = "dead" ->
              [s EXCEPT !.cS[i] = IF Live(@) THEN Switched(@, "dead") ELSE @]
         [] /\ Live(e) /\ Live(s.cP[e.project]) /\ TaskIn(s, e.task, e.project)
            /\ Live(s.cT[e.thread]) /\ s.cT[e.thread].project = e.project ->
              [s EXCEPT !.cS[i] =
                 IF Holds(@, e, profile) THEN @
                 ELSE Projected(e, profile)]
         [] OTHER -> s

reconcile_schedules(s, key, id) ==
    Each(LAMBDA i, acc : materialize_schedule(acc, i), s,
         {i \in Schedules : Live(s.eS[i]) /\ s.eS[i][key] = id})

(* Every revision goes, its schedules are switched off and published so. *)
DropTask(s, k) ==
    LET hit == {i \in Schedules : Live(s.cS[i]) /\ s.cS[i].task = k}
        off == [s EXCEPT !.cK[k] = [@ EXCEPT !.st = "dead", !.older = {}],
                         !.cS = [i \in Schedules |->
                                   IF i \in hit THEN Switched(@[i], "live") ELSE @[i]]]
    IN IF s.cK[k].st = "none" THEN s
       ELSE Each(LAMBDA i, acc : publish_canonical_schedule(acc, i), off, hit)

(* The project a task belongs to: the one it names or its thread's. *)
ThreadProject(s, t) ==
    IF t # None /\ InLiveProject(s, s.cT[t]) THEN s.cT[t].project ELSE None

Contradicts(s, e) ==
    LET via == ThreadProject(s, e.thread)
    IN e.project # None /\ via # None /\ e.project # via

private_task_project_unchecked(s, e) ==
    IF e.project # None THEN e.project ELSE ThreadProject(s, e.thread)

private_task_project(s, e) ==
    LET p == IF e.project # None THEN e.project ELSE ThreadProject(s, e.thread)
    IN IF p # None /\ Live(s.cP[p]) THEN p ELSE None

NewRevision(row, p, t) ==
    [st |-> "live", project |-> p, thread |-> t,
     older |-> (row.older \cup (IF Live(row) THEN {row.project} ELSE {})) \ {p}]

materialize_task(s, k) ==
    LET e == s.eK[k]
        p == private_task_project(s, e)
    IN CASE e.st = "dead" -> DropTask(s, k)
         [] e.st = "live" /\ Contradicts(s, e) -> Refuse(s)
         [] e.st = "live" /\ ~Contradicts(s, e) /\ p # None ->
              reconcile_schedules([s EXCEPT !.cK[k] = NewRevision(@, p, e.thread)], "task", k)
         [] OTHER -> s

materialize_message(s, m) ==
    LET e == s.eM[m]
    IN CASE e.st = "dead" -> [s EXCEPT !.cM[m] = IF @.st = "none" THEN @ ELSE Dead(@)]
         [] Live(e) /\ InLiveProject(s, s.cT[e.thread]) -> [s EXCEPT !.cM[m] = e]
         [] OTHER -> s


soft_delete_thread(s, t) ==
    [s EXCEPT !.cM = [m \in Messages |->
                        IF @[m].thread = t /\ Live(@[m]) THEN Dead(@[m]) ELSE @[m]],
              !.cS = [i \in Schedules |->
                        IF @[i].thread = t /\ Live(@[i]) THEN Switched(@[i], "dead") ELSE @[i]],
              !.cT[t] = IF @.st = "none" THEN @ ELSE Dead(@)]

(* A deleted thread takes its messages and schedules with it, as tombstones. *)
DropThread(s, t) ==
    Tombstone(Tombstone(soft_delete_thread(s, t),
        "eM", {m \in Messages : Live(s.cM[m]) /\ s.cM[m].thread = t}),
        "eS", {i \in Schedules : Live(s.cS[i]) /\ s.cS[i].thread = t})

project_for_thread(s, t) == {p \in Projects : Live(s.eP[p]) /\ t \in s.eP[p].threads}

reconcile_thread_tasks_only(s, t) ==
    Each(LAMBDA k, acc : materialize_task(acc, k), s,
         {k \in Tasks : Live(s.eK[k]) /\ s.eK[k].thread = t})

reconcile_thread(s, t) ==
    LET msgs == Each(LAMBDA m, acc : materialize_message(acc, m), s,
                     {m \in Messages : Live(s.eM[m]) /\ s.eM[m].thread = t})
        tasks == Each(LAMBDA k, acc : materialize_task(acc, k), msgs,
                      {k \in Tasks : Live(s.eK[k]) /\ s.eK[k].thread = t})
    IN reconcile_schedules(tasks, "thread", t)

materialize_thread(s, t) ==
    LET homes == project_for_thread(s, t)
        p == CHOOSE x \in homes : TRUE
    IN CASE s.eT[t].st = "none" -> s
         [] s.eT[t].st = "dead" -> DropThread(s, t)
         [] Live(s.eT[t]) /\ homes = {} -> soft_delete_thread(s, t)
         [] Live(s.eT[t]) /\ Cardinality(homes) > 1 -> Refuse(s)
         [] Live(s.eT[t]) /\ Cardinality(homes) = 1 /\ ~Live(s.cP[p]) -> s
         [] OTHER -> reconcile_thread([s EXCEPT !.cT[t] = [st |-> "live", project |-> p]], t)

(* A deleted project takes its threads, messages, schedules and the task    *)
(* revisions in it.  Every task with such a revision gets a tombstone.      *)
DropProject(s, p) ==
    LET ths == {t \in Threads : s.cT[t].project = p /\ Live(s.cT[t])}
        msgs == {m \in Messages : Live(s.cM[m]) /\ s.cT[s.cM[m].thread].project = p}
        schs == {i \in Schedules : Live(s.cS[i]) /\ s.cS[i].project = p}
        tsks == {k \in Tasks : TaskIn(s, k, p)}
        gone == [s EXCEPT
            !.cM = [m \in Messages |-> IF m \in msgs THEN Dead(@[m]) ELSE @[m]],
            !.cT = [t \in Threads |-> IF t \in ths THEN Dead(@[t]) ELSE @[t]],
            !.cS = [i \in Schedules |-> IF i \in schs THEN Switched(@[i], "dead") ELSE @[i]],
            !.cK = [k \in Tasks |->
                      [@[k] EXCEPT !.st = IF @ = "live" /\ s.cK[k].project = p THEN "dead" ELSE @,
                                   !.older = @ \ {p}]],
            !.strayed = @ \cup {k \in tsks : Live(s.cK[k]) /\ s.cK[k].project # p},
            !.cP[p] = Dead(@)]
    IN IF s.cP[p].st = "none" THEN s
       ELSE Tombstone(Tombstone(Tombstone(Tombstone(gone,
                "eM", msgs), "eT", ths), "eS", schs), "eK", tsks)

reconcile_project_threads(s, p) ==
    Each(LAMBDA t, acc : materialize_thread(acc, t), s,
         {t \in Threads : s.cT[t].project = p \/ t \in s.eP[p].threads})

materialize_project(s, p) ==
    IF s.eP[p].st = "dead" THEN DropProject(s, p)
    ELSE reconcile_project_threads([s EXCEPT !.cP[p].st = "live"], p)

(* The schedules of a deleted profile are switched off and published so. *)
DropProfile(s, f) ==
    LET hit == {i \in Schedules : Live(s.cS[i]) /\ s.cS[i].profile = f}
        off == [s EXCEPT !.cF[f] = IF Live(@) THEN Dead(@) ELSE @,
                         !.cS = [i \in Schedules |->
                                   IF i \in hit THEN Switched(@[i], "live") ELSE @[i]]]
    IN Each(LAMBDA i, acc : publish_canonical_schedule(acc, i), off, hit)

materialize_provider_profile(s, f) ==
    IF s.eF[f].st = "dead" THEN DropProfile(s, f)
    ELSE reconcile_schedules([s EXCEPT !.cF[f].st = "live"], "profile", f)

-----------------------------------------------------------------------------
(* Pushes of the account's devices: an upsert with any payload, or a delete. *)
Apply(s) == s.ok /\ db' = s /\ UNCHANGED <<request, scene>>
Pushes(kind) == kind \in scene.kinds
Targets == IF Pushes("profile") THEN {"device", "server"} ELSE {"device"}
Asks(kind) == kind \in scene.requests

PushProject(p) ==
    /\ Pushes("project")
    /\ \E e \in {[st |-> "live", threads |-> ts] : ts \in SUBSET Threads}
                \cup {Dead(Empty.eP[p])} :
          /\ e.st = "dead" => db.eP[p].st # "none"
          /\ Apply(materialize_project([db EXCEPT !.eP[p] = e], p))

PushThread(t) ==
    /\ Pushes("thread")
    /\ db.eT[t].st = "none" => db.cT[t].st = "none"   \* not a collision
    /\ \E st \in {"live", "dead"} :
          /\ st = "dead" => db.eT[t].st # "none"
          /\ Apply(materialize_thread([db EXCEPT !.eT[t].st = st], t))

PushMessage(m) ==
    /\ Pushes("message")
    /\ \E e \in [st : {"live"}, thread : Threads] \cup {Dead(Empty.eM[m])} :
          /\ e.st = "dead" => db.eM[m].st # "none"
          /\ Apply(materialize_message([db EXCEPT !.eM[m] = e], m))

PushTask(k) ==
    /\ Pushes("task")
    /\ \E e \in [st : {"live"}, project : scene.projects \cup {None}, thread : Threads \cup {None}]
                \cup {Dead(Empty.eK[k])} :
          /\ e.st = "dead" => db.eK[k].st # "none"
          /\ Apply(materialize_task([db EXCEPT !.eK[k] = e], k))

PushSchedule(i) ==
    /\ Pushes("schedule")
    /\ \E e \in [st : {"live"}, task : Tasks, project : scene.projects, thread : Threads,
                 profile : IF Pushes("profile") THEN Profiles ELSE {None},
                 target : Targets, enabled : BOOLEAN]
                \cup {Dead(Empty.eS[i])} :
          /\ e.st = "dead" => db.eS[i].st # "none"
          /\ Apply(materialize_schedule([db EXCEPT !.eS[i] = e], i))

PushProfile(f) ==
    /\ Pushes("profile")
    /\ \E st \in {"live", "dead"} :
          /\ st = "dead" => db.eF[f].st # "none"
          /\ Apply(materialize_provider_profile([db EXCEPT !.eF[f].st = st], f))

-----------------------------------------------------------------------------
(* Requests of the server's own clients.  New rows have new identifiers.    *)
create_project(p) ==
    /\ Pushes("project")
    /\ db.cP[p].st = "none" /\ db.eP[p].st = "none"
    /\ Apply(publish_canonical_project([db EXCEPT !.cP[p].st = "live"], p))

update_project(p) == Live(db.cP[p]) /\ Apply(publish_canonical_project(db, p))

delete_project(p) ==
    /\ Live(db.cP[p])
    /\ Apply(Tombstone(DropProject(db, p), "eP", {p}))

(* A create or update request reads what it refers to and answers with an   *)
(* error if it is missing; its transaction starts after that.               *)
NewThread(t) ==
    /\ db.cT[t].st = "none" /\ db.eT[t].st = "none"
    /\ \A p \in Projects : t \notin db.eP[p].threads
    /\ \A m \in Messages : db.eM[m].thread # t
    /\ \A k \in Tasks : db.eK[k].thread # t
    /\ \A i \in Schedules : db.eS[i].thread # t

NewTask(k) ==
    /\ db.cK[k].st = "none" /\ db.eK[k].st = "none"
    /\ \A i \in Schedules : db.eS[i].task # k

check_project(kind, p) ==
    /\ Asks(kind) /\ request = None
    /\ Live(db.cP[p])
    /\ request' = [kind |-> kind, project |-> p]
    /\ UNCHANGED <<db, scene>>

check_schedule(p, k, t, f, target) ==
    /\ Asks("schedule") /\ request = None
    /\ Live(db.cP[p]) /\ Live(db.cT[t]) /\ db.cT[t].project = p
    /\ TaskIn(db, k, p) /\ Bound(db, f, target)
    /\ request' = [kind |-> "schedule", project |-> p, thread |-> t, task |-> k,
                   profile |-> f, target |-> target]
    /\ UNCHANGED <<db, scene>>

check_update(i, f, target) ==
    /\ Asks("update") /\ request = None
    /\ InLiveProject(db, db.cS[i]) /\ Bound(db, f, target)
    /\ request' = [kind |-> "update", id |-> i, row |-> db.cS[i], profile |-> f,
                   target |-> target]
    /\ UNCHANGED <<db, scene>>

Requested(kind) == request # None /\ request.kind = kind

Answer(s) == db' = s /\ request' = None /\ UNCHANGED scene

create_thread(t) ==
    /\ Requested("thread") /\ NewThread(t)
    /\ Answer(publish_canonical_thread(
          [db EXCEPT !.cT[t] = [st |-> "live", project |-> request.project],
                     !.strayed = @ \cup (IF Live(db.cP[request.project]) THEN {} ELSE {t})], t))

create_task(k) ==
    /\ Requested("task") /\ NewTask(k)
    /\ Answer(publish_canonical_task(
          [db EXCEPT !.cK[k] = NewRevision(@, request.project, None),
                     !.strayed = @ \cup (IF Live(db.cP[request.project]) THEN {} ELSE {k})], k))

CanRun(row) ==
    /\ InLiveProject(db, row) /\ TaskIn(db, row.task, row.project)
    /\ Live(db.cT[row.thread]) /\ db.cT[row.thread].project = row.project
    /\ Bound(db, row.profile, row.target)

Saved(i, row) ==
    publish_canonical_schedule(
        [db EXCEPT !.cS[i] = row,
                   !.strayed = @ \cup (IF CanRun(row) THEN {} ELSE {i})], i)

create_schedule(i) ==
    /\ Requested("schedule") /\ db.cS[i].st = "none" /\ db.eS[i].st = "none"
    /\ \E on \in BOOLEAN :
          Answer(Saved(i, [st |-> "live", task |-> request.task, project |-> request.project,
                           thread |-> request.thread, profile |-> request.profile,
                           target |-> request.target, enabled |-> on, armed |-> on]))

(* The row must have the revision the client read. *)
update_schedule ==
    /\ Requested("update")
    /\ \/ /\ db.cS[request.id] = request.row
          /\ \E on \in BOOLEAN :
                Answer(Saved(request.id, [request.row EXCEPT !.profile = request.profile,
                                                             !.target = request.target,
                                                             !.enabled = on, !.armed = on]))
       \/ db.cS[request.id] # request.row /\ Answer(db)

delete_thread(t) ==
    /\ InLiveProject(db, db.cT[t])
    /\ Apply(publish_canonical_project(Tombstone(DropThread(db, t), "eT", {t}),
                                       db.cT[t].project))

update_thread(t) == Live(db.cT[t]) /\ Apply(publish_canonical_thread(db, t))

(* A message of a run is inserted and published with its run. *)
insert_message(m, t) ==
    /\ Pushes("message")
    /\ db.cM[m].st = "none" /\ db.eM[m].st = "none" /\ InLiveProject(db, db.cT[t])
    /\ Apply(publish_canonical_message([db EXCEPT !.cM[m] = [st |-> "live", thread |-> t]], m))

(* A new revision in the task's project.  A revision whose number is taken  *)
(* by a deleted one is refused by the primary key.                          *)
create_task_version(k) ==
    /\ InLiveProject(db, db.cK[k])
    /\ Apply(publish_canonical_task([db EXCEPT !.cK[k].thread = None], k))

release_task_version(k) ==
    /\ TaskHomes(db, k) # {}
    /\ Apply(publish_canonical_task(db, k))

delete_task(k) ==
    /\ TaskHomes(db, k) # {}
    /\ Apply(DropTask(Tombstone(db, "eK", {k}), k))

delete_schedule(i) ==
    /\ InLiveProject(db, db.cS[i])
    /\ Apply(Tombstone([db EXCEPT !.cS[i] = Switched(@, "dead")], "eS", {i}))

create_profile(f) ==
    /\ Pushes("profile")
    /\ db.cF[f].st = "none" /\ db.eF[f].st = "none"
    /\ \A i \in Schedules : db.eS[i].profile # f
    /\ Apply([db EXCEPT !.cF[f] = [st |-> "live", binding |-> "server"], !.eF[f].st = "live"])

(* Saving a profile on the server binds it to the server and leaves the     *)
(* schedules that use it alone.                                             *)
update_profile(f) ==
    /\ Live(db.cF[f])
    /\ Apply([db EXCEPT
          !.cF[f].binding = "server", !.eF[f].st = "live",
          !.strayed = @ \cup {i \in Schedules : db.cS[i].profile = f /\ db.cS[i].target = "device"}])

set_secret(f) == Live(db.cF[f]) /\ Apply([db EXCEPT !.eF[f].st = "live"])

delete_profile(f) ==
    /\ Live(db.cF[f])
    /\ Apply(Tombstone(DropProfile(db, f), "eF", {f}))

-----------------------------------------------------------------------------
Init == db = Empty /\ request = None /\ scene \in Scenes

Push ==
    \/ \E p \in scene.projects : PushProject(p)
    \/ \E t \in Threads : PushThread(t)
    \/ \E m \in Messages : PushMessage(m)
    \/ \E k \in Tasks : PushTask(k)
    \/ \E i \in Schedules : PushSchedule(i)
    \/ \E f \in Profiles : PushProfile(f)

Request ==
    \/ \E p \in scene.projects : create_project(p) \/ update_project(p) \/ delete_project(p)
    \/ \E p \in scene.projects, kind \in {"thread", "task"} : check_project(kind, p)
    \/ \E p \in scene.projects, k \in Tasks, t \in Threads, f \in Profiles \cup {None},
          target \in Targets : check_schedule(p, k, t, f, target)
    \/ \E i \in Schedules, f \in Profiles \cup {None}, target \in Targets :
          check_update(i, f, target)
    \/ \E t \in Threads : create_thread(t) \/ update_thread(t) \/ delete_thread(t)
    \/ \E m \in Messages, t \in Threads : insert_message(m, t)
    \/ \E k \in Tasks : \/ create_task(k) \/ create_task_version(k)
                          \/ release_task_version(k) \/ delete_task(k)
    \/ \E i \in Schedules : create_schedule(i) \/ delete_schedule(i)
    \/ update_schedule
    \/ \E f \in Profiles : \/ create_profile(f) \/ update_profile(f)
                             \/ set_secret(f) \/ delete_profile(f)

Next == Push \/ Request

Spec == Init /\ [][Next]_vars

-----------------------------------------------------------------------------
(* What the races above left in a state nothing repairs: a task tombstoned  *)
(* with a project it had left, a row created in a project deleted since its *)
(* check, a schedule switched on although it cannot run.                    *)
Normal(x) == x \notin db.strayed

\* What the devices are told is deleted is deleted on the server: a tombstone
\* in the feed never stands beside a live canonical row, whether the deletion
\* was pushed, requested or came with the deletion of a thread or project.
TombstonesAgree ==
    /\ \A p \in Projects : db.eP[p].st = "dead" => ~Live(db.cP[p])
    /\ \A t \in Threads : db.eT[t].st = "dead" => ~Live(db.cT[t])
    /\ \A m \in Messages : db.eM[m].st = "dead" => ~Live(db.cM[m])
    /\ \A k \in Tasks : Normal(k) /\ db.eK[k].st = "dead" => ~Live(db.cK[k])
    /\ \A i \in Schedules : db.eS[i].st = "dead" => ~Live(db.cS[i])

\* A live thread or task lies in a live project and a live message in a live
\* thread, in whatever order projects, threads and their contents arrive, are
\* moved, deleted and written again.
NoLiveOrphans ==
    /\ \A t \in Threads : Normal(t) /\ Live(db.cT[t]) => Live(db.cP[db.cT[t].project])
    /\ \A m \in Messages :
          Live(db.cM[m]) /\ Normal(db.cM[m].thread) => Live(db.cT[db.cM[m].thread])
    /\ \A k \in Tasks : Normal(k) /\ Live(db.cK[k]) => Live(db.cP[db.cK[k].project])

\* A schedule that will fire (next_run_at is set) has its task and thread in
\* its project and a profile that exists: deleting a task, thread, project or
\* profile disarms what hangs on it, and only a complete projection arms.
ArmedCanRun ==
    \A i \in Schedules :
        Normal(i) /\ Normal(db.cS[i].thread) /\ Normal(db.cS[i].task) /\ db.cS[i].armed
           => CanRun(db.cS[i])

\* Out-of-order convergence: whatever the order of the pushes, a thread is
\* live exactly if one live project lists it, and the messages, the tasks that
\* name their thread only, and the schedules whose references are all there
\* are projected.  A task that names its project is not included: nothing
\* projects it again when that project arrives.
Converged ==
    /\ \A p \in Projects : Live(db.eP[p]) => Live(db.cP[p])
    /\ \A t \in Threads : Live(db.eT[t]) =>
          (Live(db.cT[t]) <=> project_for_thread(db, t) # {})
    /\ \A m \in Messages :
          Live(db.eM[m]) /\ Normal(db.eM[m].thread) /\ Live(db.cT[db.eM[m].thread])
             => db.cM[m] = db.eM[m]
    /\ \A k \in Tasks :
          Live(db.eK[k]) /\ db.eK[k].project = None /\ db.eK[k].thread # None =>
             LET p == ThreadProject(db, db.eK[k].thread)
             IN Normal(db.eK[k].thread) /\ p # None => Live(db.cK[k]) /\ db.cK[k].project = p
    /\ \A i \in Schedules :
          LET e == db.eS[i] IN
          (/\ Live(e) /\ Live(db.cP[e.project]) /\ TaskIn(db, e.task, e.project)
           /\ Live(db.cT[e.thread]) /\ db.cT[e.thread].project = e.project
           /\ Normal(e.thread) /\ Normal(e.task))
             => Live(db.cS[i]) /\ db.cS[i].enabled = e.enabled
=============================================================================
