---------------------------- MODULE SecureConfigs ----------------------------
(* Configurations with secrets (app/src-tauri/src/secure_config.rs and its callers in  *)
(* lib.rs and terminal_backends.rs): the value is kept in the system's key ring under   *)
(* a fresh revision, the database row only names the revision. The two stores have no    *)
(* common transaction: a change is a step on the one, then on the other, each of which    *)
(* may fail, and the application may end between them. Commands that change a row run      *)
(* one at a time; a command that runs something resolves the row's configuration on a       *)
(* thread of its own.                                                                        *)
EXTENDS Integers, FiniteSets

CONSTANTS Owners,     \* rows: numbers
          ScopeOf,    \* the table of a row
          Names,      \* names of rows
          Lokal,      \* the name of the default backend, one of Names
          Values,     \* configurations
          Revisions,  \* revisions, numbers from 1 on: as many as there may be
          Readers,    \* commands that resolve a configuration
          MaxCommands, MaxFaults, MaxCrashes   \* bounds

VARIABLES row,        \* [live, name, local, plain, rev]: config_json is plain or names a revision
          ring,       \* the key ring: by revision, [owner, value]
          cmd,        \* the command that changes a row
          reader,     \* [at, owner, plain, rev, moved]
          last,       \* the configuration a row was last given
          leaked,     \* secrets no row names after a failure or a crash
          taken,      \* rows of another kind the default backend was written over
          commands, faults, crashes

vars == <<row, ring, cmd, reader, last, leaked, taken, commands, faults, crashes>>

None == 0
NoRow == [live |-> FALSE, name |-> None, local |-> FALSE, plain |-> None, rev |-> None]
NoSecret == [owner |-> None, value |-> None]
Idle == [at |-> "idle", owner |-> None, onto |-> None, name |-> None, local |-> FALSE,
         value |-> None, new |-> None, old |-> None]
NoReader == [at |-> "idle", owner |-> None, plain |-> None, rev |-> None, moved |-> FALSE, got |-> None]

(* Rows of before the key ring was used hold their configuration in the clear.           *)
Init ==
    /\ row \in [Owners -> {NoRow} \union
                          {[live |-> TRUE, name |-> n, local |-> FALSE, plain |-> v, rev |-> None] :
                              n \in Names, v \in Values}]
    /\ \A o, p \in Owners : row[o].live /\ row[p].live /\ o # p /\ ScopeOf[o] = ScopeOf[p]
                                => row[o].name # row[p].name
    /\ ring = [r \in Revisions |-> NoSecret]
    /\ cmd = Idle
    /\ reader = [i \in Readers |-> NoReader]
    /\ last = [o \in Owners |-> row[o].plain]
    /\ leaked = {} /\ taken = {}
    /\ commands = 0 /\ faults = 0 /\ crashes = 0

Command == cmd = Idle /\ commands < MaxCommands /\ commands' = commands + 1
Fault == faults < MaxFaults /\ faults' = faults + 1

(* Named(o, n): the row of o's table that has the name, if any.                            *)
Named(o, n) == {p \in Owners : row[p].live /\ ScopeOf[p] = ScopeOf[o] /\ row[p].name = n}

Live == {o \in Owners : row[o].live}
Moved(o) ==
    [i \in Readers |-> IF reader[i].at = "read" /\ reader[i].owner = o
                       THEN [reader[i] EXCEPT !.moved = TRUE] ELSE reader[i]]

(* A secret is found under its revision and its row: store.get, store.delete.                *)
Holds(o, r) == r # None /\ ring[r].owner = o
Erased(o, r) == IF Holds(o, r) THEN [ring EXCEPT ![r] = NoSecret] ELSE ring
Leaks(revs) == leaked \union {r \in revs \ {None} : ring[r] # NoSecret}

Fresh == {r \in Revisions : /\ ring[r] = NoSecret
                            /\ \A o \in Owners : row[o].rev # r
                            /\ \A i \in Readers : reader[i].rev # r}

-----------------------------------------------------------------------------
(* secure_config::replace                                                                   *)
Begin(o, onto, n, local, v, old) ==
    /\ Command
    /\ cmd' = [at |-> "prepare", owner |-> o, onto |-> onto, name |-> n, local |-> local,
               value |-> v, new |-> None, old |-> old]
    /\ UNCHANGED <<row, ring, reader, last, leaked, taken, faults, crashes>>

(* prepare: the secret under a fresh revision.                                              *)
Prepared_only(r) == [Erased(cmd.owner, cmd.old) EXCEPT ![r] = [owner |-> cmd.owner, value |-> cmd.value]]
Prepared(r) == [ring EXCEPT ![r] = [owner |-> cmd.owner, value |-> cmd.value]]

prepare ==
    /\ cmd.at = "prepare"
    /\ \/ \E r \in Fresh :
            /\ \A q \in Fresh : r <= q
            /\ ring' = Prepared(r)
            /\ cmd' = [cmd EXCEPT !.at = "commit", !.new = r]
            /\ UNCHANGED faults
       \/ Fault /\ cmd' = Idle /\ UNCHANGED ring
    /\ UNCHANGED <<row, reader, last, leaked, taken, commands, crashes>>

(* The upsert goes by name: another row that has the name is written over. A new name for    *)
(* a row that exists is refused by its primary key.                                           *)
Refused == cmd.onto = cmd.owner /\ row[cmd.owner].live /\ row[cmd.owner].name # cmd.name

commit ==
    /\ cmd.at = "commit" /\ ~Refused
    /\ row' = [row EXCEPT ![cmd.onto] = [live |-> TRUE, name |-> cmd.name, local |-> cmd.local,
                                         plain |-> None, rev |-> cmd.new]]
    /\ last' = [last EXCEPT ![cmd.onto] = cmd.value]
    /\ IF cmd.onto = cmd.owner
       THEN taken' = taken \ {cmd.onto} /\ UNCHANGED leaked
       ELSE taken' = taken \union {cmd.onto} /\ leaked' = Leaks({row[cmd.onto].rev, cmd.new})
    /\ cmd' = [cmd EXCEPT !.at = "forget"]
    /\ reader' = Moved(cmd.onto)
    /\ UNCHANGED <<ring, commands, faults, crashes>>

Undone(r) == Erased(cmd.owner, r)

commit_fails ==
    /\ cmd.at = "commit"
    /\ IF Refused THEN UNCHANGED faults ELSE Fault
    /\ ring' = Undone(cmd.new)
    /\ cmd' = Idle
    /\ UNCHANGED <<row, reader, last, leaked, taken, commands, crashes>>

undo_fails ==
    /\ cmd.at = "commit" /\ Refused
    /\ Fault
    /\ leaked' = Leaks({cmd.new})
    /\ cmd' = Idle
    /\ UNCHANGED <<row, ring, reader, last, taken, commands, crashes>>

(* The previous secret goes; a failure is not looked at.                                       *)
Forgotten_kept(o, r) == ring
Forgotten(o, r) == Erased(o, r)

forget ==
    /\ cmd.at = "forget"
    /\ ring' = Forgotten(cmd.owner, cmd.old)
    /\ cmd' = Idle
    /\ UNCHANGED <<row, reader, last, leaked, taken, commands, faults, crashes>>

forget_fails ==
    /\ cmd.at = "forget" /\ cmd.old # None
    /\ Fault
    /\ leaked' = Leaks({cmd.old})
    /\ cmd' = Idle
    /\ UNCHANGED <<row, ring, reader, last, taken, commands, crashes>>

-----------------------------------------------------------------------------
(* The commands. A name that another row of the table has is refused.                           *)
Upsert(scope, o, n, local, v) ==
    /\ ScopeOf[o] = scope
    /\ Named(o, n) \subseteq {o}
    /\ Begin(o, o, n, local, v, row[o].rev)

backend_upsert(o, n, local, v) == Upsert("terminal_backend", o, n, local, v)
memory_provider_upsert(o, n, v) == Upsert("memory_provider", o, n, FALSE, v)
tool_gateway_upsert(o, n, v) == Upsert("tool_gateway", o, n, FALSE, v)

(* ensure_default_local_backend: a new row by the default name, unless some backend is local. *)
ensure_default_local_backend(o, v) ==
    /\ ScopeOf[o] = "terminal_backend" /\ ~row[o].live
    /\ \A p \in Live : ScopeOf[p] = "terminal_backend" => ~row[p].local
    /\ \E onto \in IF Named(o, Lokal) = {} THEN {o} ELSE Named(o, Lokal) :
          Begin(o, onto, Lokal, TRUE, v, None)

worker_sandbox_create(o, n, v) ==
    /\ ScopeOf[o] = "worker_sandbox" /\ ~row[o].live /\ Named(o, n) = {}
    /\ Begin(o, o, n, FALSE, v, None)

(* migrate_secure_config_rows: row by row, those in the clear.                                  *)
Unmigrated(o) == row[o].live /\ row[o].plain # None

secure_config_migrate(o) ==
    /\ Unmigrated(o)
    /\ Begin(o, o, row[o].name, row[o].local, row[o].plain, None)

(* delete_reference after the row: a key ring that fails is reported, and the secret stays       *)
(* without a row that would name it.                                                             *)
Deleted(o) == [row EXCEPT ![o] = NoRow]

Delete(o) ==
    /\ Command
    /\ row[o].live
    /\ row' = Deleted(o)
    /\ last' = [last EXCEPT ![o] = None]
    /\ taken' = taken \ {o}
    /\ cmd' = [Idle EXCEPT !.at = "forget", !.owner = o, !.old = row[o].rev]
    /\ reader' = Moved(o)
    /\ UNCHANGED <<ring, leaked, faults, crashes>>

backend_delete(o) == ScopeOf[o] = "terminal_backend" /\ Delete(o)
memory_provider_delete(o) == ScopeOf[o] = "memory_provider" /\ Delete(o)
tool_gateway_delete(o) == ScopeOf[o] = "tool_gateway" /\ Delete(o)
worker_sandbox_destroy(o) == ScopeOf[o] = "worker_sandbox" /\ Delete(o)

(* The application ends in the middle of a command: what it put in the key ring, or was about   *)
(* to take out of it, stays.                                                                     *)
crash ==
    /\ crashes < MaxCrashes /\ crashes' = crashes + 1
    /\ leaked' = CASE cmd.at = "commit" -> Leaks({cmd.new})
                   [] cmd.at = "forget" -> Leaks({cmd.old})
                   [] OTHER -> leaked
    /\ cmd' = Idle
    /\ reader' = [i \in Readers |-> NoReader]
    /\ UNCHANGED <<row, ring, last, taken, commands, faults>>

-----------------------------------------------------------------------------
(* dispatch_exec, resolve_exec_runtime: the row, and later its secret.                          *)
read_row(i, o) ==
    /\ reader[i].at = "idle" /\ row[o].live
    /\ reader' = [reader EXCEPT ![i] = [NoReader EXCEPT !.at = "read", !.owner = o,
                                          !.plain = row[o].plain, !.rev = row[o].rev, !.got = last[o],
                                          !.moved = o \in taken]]
    /\ UNCHANGED <<row, ring, cmd, last, leaked, taken, commands, faults, crashes>>

Found(i) ==
    IF reader[i].rev = None THEN reader[i].plain
    ELSE IF Holds(reader[i].owner, reader[i].rev) THEN ring[reader[i].rev].value ELSE None

(* got is the configuration the row had when it was read, as long as that is what is found.      *)
resolve(i) ==
    /\ reader[i].at = "read"
    /\ reader' = [reader EXCEPT ![i].at = IF Found(i) = None THEN "missing"
                                          ELSE IF Found(i) = reader[i].got THEN "found" ELSE "other"]
    /\ UNCHANGED <<row, ring, cmd, last, leaked, taken, commands, faults, crashes>>

reader_ends(i) ==
    /\ reader[i].at \in {"found", "missing", "other"}
    /\ reader' = [reader EXCEPT ![i] = NoReader]
    /\ UNCHANGED <<row, ring, cmd, last, leaked, taken, commands, faults, crashes>>

Next ==
    \/ \E o \in Owners :
        \/ \E n \in Names, v \in Values :
            \/ \E local \in BOOLEAN : backend_upsert(o, n, local, v)
            \/ memory_provider_upsert(o, n, v) \/ tool_gateway_upsert(o, n, v)
            \/ worker_sandbox_create(o, n, v)
        \/ \E v \in Values : ensure_default_local_backend(o, v)
        \/ secure_config_migrate(o)
        \/ backend_delete(o) \/ memory_provider_delete(o) \/ tool_gateway_delete(o)
        \/ worker_sandbox_destroy(o)
    \/ prepare \/ commit \/ commit_fails \/ undo_fails \/ forget \/ forget_fails
    \/ crash
    \/ \E i \in Readers : \/ resolve(i) \/ reader_ends(i)
                          \/ \E o \in Owners : read_row(i, o)

Spec == Init /\ [][Next]_vars

-----------------------------------------------------------------------------
(* Whatever fails and whenever the application ends, a row's configuration can be read and is   *)
(* the one last given to it, unless the default backend was written over the row                 *)
(* (secure_config::replace, delete_reference, migrate_secure_config_rows).                        *)
Resolvable ==
    \A o \in Live \ taken :
        IF row[o].rev = None THEN row[o].plain = last[o]
        ELSE ring[row[o].rev] = [owner |-> o, value |-> last[o]]

(* Between commands the key ring holds no secret that no row names, except where the key ring    *)
(* itself failed, the application ended in between, or the default backend took a row over        *)
(* (replace, delete_reference).                                                                   *)
NoOrphans ==
    cmd = Idle => \A r \in Revisions \ leaked :
        ring[r] # NoSecret => \E o \in Owners : row[o].rev = r /\ ring[r].owner = o

(* A command resolves the configuration that the row had when it was read, or finds it missing    *)
(* because the row was changed in between; never another's (dispatch_exec, resolve).               *)
ReadsOwn ==
    \A i \in Readers : /\ reader[i].at # "other"
                        /\ reader[i].at = "missing" => reader[i].moved

(* All three of them.                                                                              *)
SecretsSound == Resolvable /\ NoOrphans /\ ReadsOwn
=============================================================================
