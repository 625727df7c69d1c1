----------------------------- MODULE AppDatabase -----------------------------
(* Opening the desktop application's database (app/src-tauri/src/db.rs): it is      *)
(* checked, copied when a migration is due, migrated in one transaction with        *)
(* foreign keys off, and checked again; the application ends on any error and may    *)
(* exit at any point. Of the migrations, the ones that move data are modelled:        *)
(* sessions become part of chats and runs (25), project folders get a primary one     *)
(* (26), and backend defaults are added (27).                                         *)
EXTENDS Integers, FiniteSets, FiniteSetsExt

CONSTANTS Threads, Sessions, Runs, Folders,   \* row ids, numbers from 1 on
          Leftovers,   \* versions of earlier upgrades whose copies are still there
          Keep,        \* MAX_PRE_MIGRATION_BACKUPS
          MaxFaults, MaxCrashes   \* bounds

None == 0
Latest == 27           \* LATEST_SCHEMA_VERSION
Source == 24           \* the version that is upgraded

VARIABLES db,          \* the database file: version and rows
          backups,     \* [from, stamp, data] of the copies
          app,         \* where the application is
          original,    \* the database before the upgrade
          faults, crashes

vars == <<db, backups, app, original, faults, crashes>>

(* The rows that migration 25 moves. A session belongs to a chat, a run to a chat and   *)
(* a session, an outcome (learning_outcomes, insights_events) to a session; a memory     *)
(* entry names its session or run, and no key covers that.                               *)
Database(version, threads, sessions, runs, outcome, memory, folders) ==
    [version |-> version, threads |-> threads, snapshot |-> [t \in Threads |-> None],
     sessions |-> sessions, runs |-> runs, outcome |-> outcome, memory |-> memory,
     folders |-> folders, primary |-> {}, profiles |-> {}, default |-> None]

NoOutcome == [session |-> None]
NoMemory == [scope |-> "agent", source |-> None]
Empty(version) == Database(version, {}, {}, {}, NoOutcome, NoMemory, {})

IdsOf(rows) == {r.id : r \in rows} \union {None}

(* foreign_key_check, before and after sessions are gone                                 *)
KeysHold(d) ==
    /\ \A s \in d.sessions : s.thread \in d.threads \union {None}
    /\ \A r \in d.runs : r.thread \in d.threads \union {None}
    /\ IF d.version < 25
       THEN /\ \A r \in d.runs : r.session \in IdsOf(d.sessions)
            /\ d.outcome.session \in IdsOf(d.sessions)
       ELSE /\ d.outcome.run \in IdsOf(d.runs) /\ d.memory.run \in IdsOf(d.runs)
            /\ d.outcome.thread \in d.threads \union {None}
    /\ d.default \in d.profiles \union {None}

OldDatabases ==
    {Database(Source, threads, sessions, runs, outcome, memory, folders) :
        threads \in SUBSET Threads,
        sessions \in {z \in SUBSET [id : Sessions, thread : Threads \union {None}] :
                        \A s, t \in z : s.id = t.id => s = t},
        runs \in {{}} \union {{r} : r \in [id : Runs, thread : Threads \union {None},
                                            session : Sessions \union {None}]},
        outcome \in [session : Sessions \union {None}],
        memory \in [scope : {"agent", "session"}, source : Sessions \union Runs \union {None}],
        folders \in SUBSET Folders}

Init ==
    /\ db \in {d \in OldDatabases : KeysHold(d)} \union {Empty(0), Empty(Source), Empty(Latest + 1)}
    /\ original = db
    /\ backups = {[from |-> v, stamp |-> 0, data |-> Empty(v)] : v \in Leftovers}
    /\ app = "closed" /\ faults = 0 /\ crashes = 0

-----------------------------------------------------------------------------
(* A chat keeps the snapshot of its latest session; whatever named a session names its   *)
(* chat and its latest run; a session's memory becomes the chat's.                        *)
ThreadOf(d, session) == LET s == {x \in d.sessions : x.id = session} IN
    IF s = {} THEN None ELSE (CHOOSE x \in s : TRUE).thread

Newest(ids) == Max(ids \union {None})

RunOf_session(d, session) == session
RunOf(d, session) == Newest({r.id : r \in {x \in d.runs : session # None /\ x.session = session}})

Memory25(d) ==
    LET chat == ThreadOf(d, d.memory.source) IN
    [scope |-> IF d.memory.scope # "session" THEN d.memory.scope
               ELSE IF chat # None THEN "chat" ELSE "legacy",
     ref |-> IF d.memory.scope = "session" THEN chat ELSE None,
     run |-> IF d.memory.source \in IdsOf(d.runs) THEN d.memory.source
             ELSE RunOf(d, d.memory.source)]

Migrated25(d) ==
    [d EXCEPT !.version = 25,
        !.snapshot = [t \in Threads |->
            Newest({s.id : s \in {x \in d.sessions : x.thread = t /\ t \in d.threads}})],
        !.runs = {[id |-> r.id, thread |-> r.thread] : r \in d.runs},
        !.outcome = [run |-> RunOf(d, d.outcome.session), thread |-> ThreadOf(d, d.outcome.session)],
        !.memory = Memory25(d),
        !.sessions = {}]

Migrated26(d) ==
    [d EXCEPT !.version = 26, !.primary = IF d.folders = {} THEN {} ELSE {Min(d.folders)}]

Migrated27(d) == [d EXCEPT !.version = 27, !.profiles = {1}, !.default = 1]

Migrated(d) == Migrated27(Migrated26(Migrated25(d)))

-----------------------------------------------------------------------------
ensure_supported ==
    /\ app = "closed"
    /\ app' = IF db.version > Latest \/ ~KeysHold(db) THEN "refused"
              ELSE IF db.version \in 1 .. Latest - 1 THEN "copy"
              ELSE IF db.version = 0 THEN "migrate" ELSE "check"
    /\ UNCHANGED <<db, backups, original, faults, crashes>>

create_pre_migration_backup ==
    /\ app = "copy"
    /\ backups' = backups \union {[from |-> db.version, stamp |-> faults + crashes + 1, data |-> db]}
    /\ app' = "prune"
    /\ UNCHANGED <<db, original, faults, crashes>>

(* The newest ones by file name: the name starts with the version, compared as text.      *)
NameOrder(v) == IF v < 10 THEN 11 * v ELSE 11 * (v \div 10) + 1 + (v % 10)
After(a, b) ==
    \/ NameOrder(a.from) > NameOrder(b.from)
    \/ a.from = b.from /\ a.stamp > b.stamp

Kept_fewer(b) == Cardinality({a \in backups : After(a, b)}) < Keep - 1
Kept(b) == Cardinality({a \in backups : After(a, b)}) < Keep

prune_pre_migration_backups ==
    /\ app = "prune"
    /\ backups' = {b \in backups : Kept(b)}
    /\ app' = "migrate"
    /\ UNCHANGED <<db, original, faults, crashes>>

migrate ==
    /\ app = "migrate"
    /\ db' = Migrated(db)
    /\ app' = "check"
    /\ UNCHANGED <<backups, original, faults, crashes>>

(* A statement fails: the transaction is rolled back and the application ends.             *)
migrate_fails ==
    /\ app = "migrate"
    /\ faults < MaxFaults /\ faults' = faults + 1
    /\ app' = "closed"
    /\ UNCHANGED <<db, backups, original, crashes>>

ensure_integrity ==
    /\ app = "check"
    /\ app' = IF KeysHold(db) THEN "open" ELSE "refused"
    /\ UNCHANGED <<db, backups, original, faults, crashes>>

(* In use, foreign keys are on: a deleted chat is taken out of the rows that name it.       *)
delete_thread(t) ==
    /\ app = "open"
    /\ t \in db.threads
    /\ LET cut(x) == IF x = t THEN None ELSE x IN
       db' = [db EXCEPT !.threads = @ \ {t},
                        !.runs = {[r EXCEPT !.thread = cut(@)] : r \in db.runs},
                        !.outcome.thread = cut(@)]
    /\ UNCHANGED <<backups, app, original, faults, crashes>>

exits ==
    /\ app \notin {"closed", "refused"}
    /\ crashes < MaxCrashes /\ crashes' = crashes + 1
    /\ app' = "closed"
    /\ UNCHANGED <<db, backups, original, faults>>

Next ==
    \/ ensure_supported \/ create_pre_migration_backup \/ prune_pre_migration_backups
    \/ migrate \/ migrate_fails \/ ensure_integrity
    \/ \E t \in Threads : delete_thread(t)
    \/ exits

Spec == Init /\ [][Next]_vars

-----------------------------------------------------------------------------
(* A database that could be opened can be opened after the upgrade: the rows migration     *)
(* 25 moves with foreign keys off name rows that exist, so neither check refuses it, and    *)
(* a failure or an exit at any point leaves a version that opens again (open, migrate).      *)
NeverLockedOut == app = "refused" => original.version > Latest

(* Once a database was migrated, the copy of what it was before is still there, as long as   *)
(* fewer than Keep copies of earlier upgrades sort after it (create_pre_migration_backup,     *)
(* prune_pre_migration_backups).                                                              *)
RestorePoint ==
    (db.version = Latest /\ original.version = Source) => \E b \in backups : b.data = original

(* What a session knew stays with its chat and reaches no other one.                          *)
MemoryStaysInChat ==
    (db.version = Latest /\ db.memory.scope = "chat") =>
        /\ db.memory.ref # None
        /\ \E s \in original.sessions : s.id = original.memory.source /\ s.thread = db.memory.ref

(* All three: an upgrade keeps the user's data.                                               *)
UpgradeKeeps == NeverLockedOut /\ RestorePoint /\ MemoryStaysInChat
=============================================================================
