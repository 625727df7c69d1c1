------------------------------ MODULE SyncFeed ------------------------------
(***************************************************************************)
(* Metadata synchronisation of one account.  The server keeps the current  *)
(* version of every entity (sync_entities), a feed of changes numbered by  *)
(* a database sequence (sync_changes) and the result of every operation it *)
(* has seen (sync_operations).  A personal device keeps its own entities   *)
(* and an outbox in the local daemon; its agent pushes the outbox, then    *)
(* pulls the feed, every two seconds, and every call of that cycle may be  *)
(* the last one before a timeout, a lost connection or a crash.            *)
(*                                                                         *)
(* A write transaction is two steps: it takes its locks and draws its      *)
(* cursor (Begin), and it commits or rolls back later.  What is committed  *)
(* is visible to readers; what is drawn is not.                            *)
(***************************************************************************)
EXTENDS Integers, Sequences, FiniteSets, Functions

CONSTANTS
    Devices,      \* personal devices of the account
    Entities,     \* synchronised entities (type and identifier)
    Shared,       \* entities every device has at the start
    Scenes,       \* bound: what one exploration lets happen, see Scene
    PageSize,     \* changes per push and per pull (100 in the agent)
    MaxRev        \* bound: revision of an entity

(* edits: who edits what; publishes: what the server's own mutations write; *)
(* rejected: entities whose changes fail the server's validation; unfit:    *)
(* entities whose changes the canonical tables refuse; writes, faults: how  *)
(* many payloads are written and how many cycles or transactions are cut.   *)
Scene == [edits : SUBSET (Devices \X Entities), publishes : SUBSET Entities,
          rejected : SUBSET Entities, unfit : SUBSET Entities,
          writes : Nat, faults : Nat]

ASSUME SyncAssumption ==
    /\ Shared \subseteq Entities /\ IsFiniteSet(Entities)
    /\ \A sc \in Scenes : sc \in Scene
    /\ PageSize \in Nat \ {0} /\ MaxRev \in Nat

VARIABLES
    version,   \* sync_entities: the committed version of every entity
    feed,      \* sync_changes: the committed rows
    drawn,     \* last cursor drawn from the sequence
    open,      \* write transactions that hold a cursor and have not ended
    ops,       \* sync_operations: result of every recorded operation
    copy,      \* daemon_entities per device
    outbox,    \* daemon_sync_changes per device, the cursor is the index
    lcur,      \* daemon_sync_peers.local_cursor
    rcur,      \* daemon_sync_peers.remote_cursor
    conf,      \* daemon_sync_conflicts: whether one is open, and its two sides
    agent,     \* where the agent's cycle is, and what it holds
    passed,    \* history: <<device, entity>> whose change committed after
               \* the device's cursor had gone past it
    scene,     \* the scene explored, fixed from the start
    stamp,     \* writes so far
    cuts       \* interruptions so far

feedVars == <<version, feed, drawn, open, ops>>
deviceVars == <<copy, outbox, lcur, rcur, conf>>
syncVars == <<feedVars, deviceVars, agent, passed, scene, stamp, cuts>>

(* A version of an entity; revision 0 is "no row". *)
Absent == [rev |-> 0, val |-> 0, dead |-> FALSE]
Version == [rev : Nat, val : Nat, dead : BOOLEAN]
NoConflict == [open |-> FALSE, mine |-> Absent, theirs |-> Absent]

(* The operation of a push is its device and its outbox cursor; a change of *)
(* the server's own has cursor 0.                                           *)
ServerOp == <<"server", 0>>

(* The agent's cycle.  A page of the outbox is the interval of cursors from *)
(* local_cursor to last, answered up to at: rows of the outbox and recorded *)
(* results do not change.  A page of the feed is a set of rows.             *)
NoCycle == [pc |-> "idle", at |-> 0, last |-> 0, noted |-> FALSE, full |-> FALSE, rows |-> {}]

(* The entities of Shared were synchronised before; the others are new. *)
SyncInit ==
    LET first == [e \in Entities |->
                    IF e \in Shared THEN [rev |-> 1, val |-> 0, dead |-> FALSE] ELSE Absent]
        n == Cardinality(Shared)
    IN /\ version = first
       /\ \E order \in Bijection(1..n, Shared) :
            feed = {[cursor |-> i, e |-> order[i], ver |-> first[order[i]],
                     op |-> ServerOp, on |-> Absent] : i \in 1..n}
       /\ drawn = n /\ open = {} /\ ops = [o \in {} |-> 0]
       /\ copy = [d \in Devices |-> first]
       /\ outbox = [d \in Devices |-> <<>>]
       /\ lcur = [d \in Devices |-> 0]
       /\ rcur = [d \in Devices |-> n]
       /\ conf = [d \in Devices |-> [e \in Entities |-> NoConflict]]
       /\ agent = [d \in Devices |-> NoCycle]
       /\ passed = {} /\ scene \in Scenes /\ stamp = 0 /\ cuts = 0

-----------------------------------------------------------------------------
(* The local daemon: entity writes, with their outbox row, in one          *)
(* transaction under the daemon's database lock.                           *)

(* `on` is the version the writer looked at; it is not stored. *)
Written(d, e, v, on) ==
    /\ copy' = [copy EXCEPT ![d][e] = v]
    /\ outbox' = [outbox EXCEPT ![d] =
                    Append(@, [e |-> e, ver |-> v, on |-> on])]

write_daemon_entity(d, e) ==
    /\ stamp < scene.writes /\ copy[d][e].rev < MaxRev
    /\ stamp' = stamp + 1
    /\ Written(d, e, [rev |-> copy[d][e].rev + 1, val |-> stamp', dead |-> FALSE],
               copy[d][e])
    /\ UNCHANGED <<feedVars, lcur, rcur, conf, agent, passed, scene, cuts>>

tombstone_daemon_entity(d, e) ==
    /\ stamp < scene.writes /\ copy[d][e].rev \in 1..(MaxRev - 1)
    /\ stamp' = stamp + 1
    /\ Written(d, e, [copy[d][e] EXCEPT !.rev = @ + 1, !.dead = TRUE], copy[d][e])
    /\ UNCHANGED <<feedVars, lcur, rcur, conf, agent, passed, scene, cuts>>

(* What apply_remote does with version v of e. *)
PendingLocal(d, e) == \E i \in (lcur[d] + 1)..Len(outbox[d]) : outbox[d][i].e = e

Diverged(mine, v) ==
    /\ mine.rev > 0 /\ mine.rev = v.rev
    /\ mine.dead # v.dead \/ (~v.dead /\ mine.val # v.val)

(* A remote tombstone keeps the payload the device has. *)
write_remote_entity(mine, v) == IF v.dead THEN [v EXCEPT !.val = mine.val] ELSE v

apply_remote(d, e, v) ==
    IF PendingLocal(d, e) \/ conf[d][e].open \/ Diverged(copy[d][e], v)
    THEN /\ conf' = [conf EXCEPT ![d][e] = [open |-> TRUE, mine |-> copy[d][e], theirs |-> v]]
         /\ UNCHANGED copy
    ELSE /\ copy' = [copy EXCEPT ![d][e] =
                        IF @.rev > v.rev THEN @ ELSE write_remote_entity(@, v)]
         /\ UNCHANGED conf

(* The user settles an open conflict.  keep_local fails when the device had *)
(* no version, and when the outbox already has that revision (UNIQUE).      *)
use_remote(d, e) ==
    /\ conf[d][e].open
    /\ copy' = [copy EXCEPT ![d][e] = write_remote_entity(@, conf[d][e].theirs)]
    /\ conf' = [conf EXCEPT ![d][e] = NoConflict]
    /\ UNCHANGED <<feedVars, outbox, lcur, rcur, agent, passed, scene, stamp, cuts>>

keep_local(d, e) ==
    LET mine == conf[d][e].mine
        theirs == conf[d][e].theirs
        v == [mine EXCEPT !.rev = theirs.rev + 1]
    IN /\ conf[d][e].open
       /\ mine.rev > 0 /\ theirs.rev < MaxRev
       /\ \A i \in 1..Len(outbox[d]) :
             ~(outbox[d][i].e = e /\ outbox[d][i].ver.rev = v.rev)
       /\ Written(d, e, v, theirs)
       /\ conf' = [conf EXCEPT ![d][e] = NoConflict]
       /\ UNCHANGED <<feedVars, lcur, rcur, agent, passed, scene, stamp, cuts>>

-----------------------------------------------------------------------------
(* Locks of a write transaction.  Every writer takes the entity's advisory *)
(* lock; a push and a published upsert also take the account's quota lock. *)
EntityFree_unlocked(e) == TRUE

EntityFree(e) == \A t \in open : t.e # e
QuotaFree == \A t \in open : ~t.quota

BeginTx(t) ==
    /\ drawn' = drawn + 1
    /\ open' = open \cup {t}

-----------------------------------------------------------------------------
(* The push half of the agent's cycle. *)

(* sync.state and entities.changes, mapped for the server: up to PageSize   *)
(* changes after local_cursor.                                              *)
PageEnd(d) ==
    IF Len(outbox[d]) < lcur[d] + PageSize THEN Len(outbox[d]) ELSE lcur[d] + PageSize

PushStart(d) ==
    /\ agent[d].pc = "idle" /\ lcur[d] < Len(outbox[d])
    /\ agent' = [agent EXCEPT ![d] =
                   [NoCycle EXCEPT !.pc = "push", !.at = lcur[d], !.last = PageEnd(d),
                                   !.full = PageEnd(d) = lcur[d] + PageSize]]
    /\ UNCHANGED <<feedVars, deviceVars, passed, scene, stamp, cuts>>

(* The change the server handles next for device d, and its operation: the  *)
(* agent maps an outbox row to its entity, version, base revision (one less *)
(* than its own) and an operation named by device and cursor.               *)
Serving(d) == agent[d].pc = "push"
Current(d) == outbox[d][agent[d].at + 1]
OpOf(d) == <<d, agent[d].at + 1>>

(* The server has the result of the change, and goes on to the next one. *)
Returned(d) ==
    agent' = [agent EXCEPT ![d].at = @ + 1,
                           ![d].pc = IF agent[d].at + 1 = agent[d].last THEN "ack" ELSE "push"]

Recorded(o, r) ==
    ops' = [p \in DOMAIN ops \cup {o} |-> IF p = o THEN r ELSE ops[p]]

(* The operation is known: its first result is returned again.  The         *)
(* operation's lock keeps a retry behind a first attempt still open.        *)
PushReplay(d) ==
    /\ Serving(d)
    /\ OpOf(d) \in DOMAIN ops
    /\ Returned(d)
    /\ UNCHANGED <<feedVars, deviceVars, passed, scene, stamp, cuts>>

NewOp(d) ==
    /\ Serving(d)
    /\ \A i \in (lcur[d] + 1)..agent[d].last : outbox[d][i].e \notin scene.rejected
    /\ OpOf(d) \notin DOMAIN ops
    /\ \A t \in open : t.op # OpOf(d)
    /\ EntityFree(Current(d).e)

(* The whole batch is validated first; a refused change ends the request. *)
PushRefused(d) ==
    /\ Serving(d) /\ agent[d].at = lcur[d]
    /\ \E i \in (lcur[d] + 1)..agent[d].last : outbox[d][i].e \in scene.rejected
    /\ agent' = [agent EXCEPT ![d] = NoCycle]
    /\ UNCHANGED <<feedVars, deviceVars, passed, scene, stamp, cuts>>

BaseMatches_unchecked(d) == version[Current(d).e].rev >= 0

BaseMatches(d) == version[Current(d).e].rev = Current(d).ver.rev - 1

(* The canonical tables refuse it: rolled back, the request fails here and  *)
(* the earlier changes of the batch stay applied.                           *)
PushFailed(d) ==
    /\ NewOp(d) /\ BaseMatches(d)
    /\ QuotaFree /\ Current(d).e \in scene.unfit
    /\ agent' = [agent EXCEPT ![d] = NoCycle]
    /\ UNCHANGED <<feedVars, deviceVars, passed, scene, stamp, cuts>>

PushConflict(d) ==
    /\ NewOp(d) /\ ~BaseMatches(d)
    /\ Recorded(OpOf(d), [status |-> "conflict", ver |-> version[Current(d).e]])
    /\ Returned(d)
    /\ UNCHANGED <<version, feed, drawn, open, deviceVars, passed, scene, stamp, cuts>>

PushBegin(d) ==
    /\ NewOp(d) /\ BaseMatches(d)
    /\ QuotaFree /\ Current(d).e \notin scene.unfit
    /\ BeginTx([e |-> Current(d).e, op |-> OpOf(d), quota |-> TRUE, cursor |-> drawn + 1,
                on |-> Current(d).on,
                ver |-> IF Current(d).ver.dead THEN [Current(d).ver EXCEPT !.val = 0]
                        ELSE Current(d).ver])
    /\ UNCHANGED <<version, feed, ops, deviceVars, agent, passed, scene, stamp, cuts>>

-----------------------------------------------------------------------------
(* Server-side writers: mutations of the canonical tables publish the new  *)
(* payload, deletions publish tombstones.                                  *)
publish_server_entity(e) ==
    /\ stamp < scene.writes /\ version[e].rev < MaxRev
    /\ EntityFree(e) /\ QuotaFree
    /\ stamp' = stamp + 1
    /\ BeginTx([e |-> e, op |-> ServerOp, quota |-> TRUE, cursor |-> drawn + 1,
                on |-> version[e],
                ver |-> [rev |-> version[e].rev + 1, val |-> stamp', dead |-> FALSE]])
    /\ UNCHANGED <<version, feed, ops, deviceVars, agent, passed, scene, cuts>>

publish_server_tombstone(e) ==
    /\ stamp < scene.writes /\ version[e].rev \in 1..(MaxRev - 1) /\ ~version[e].dead
    /\ stamp' = stamp + 1
    /\ EntityFree(e)
    /\ BeginTx([e |-> e, op |-> ServerOp, quota |-> FALSE, cursor |-> drawn + 1,
                on |-> version[e],
                ver |-> [rev |-> version[e].rev + 1, val |-> 0, dead |-> TRUE]])
    /\ UNCHANGED <<version, feed, ops, deviceVars, agent, passed, scene, cuts>>

-----------------------------------------------------------------------------
(* The end of a write transaction. *)
Awaiting(t) == t.op[2] # 0 /\ Serving(t.op[1]) /\ OpOf(t.op[1]) = t.op

(* Device d has read, or is applying, rows after cursor c. *)
Beyond(d, c) == rcur[d] > c \/ \E r \in agent[d].rows : r.cursor > c

Commit(t) ==
    /\ t \in open
    /\ open' = open \ {t}
    /\ version' = [version EXCEPT ![t.e] = t.ver]
    /\ feed' = feed \cup {[cursor |-> t.cursor, e |-> t.e, ver |-> t.ver,
                           op |-> t.op, on |-> t.on]}
    /\ IF t.op[2] = 0 THEN UNCHANGED ops
                      ELSE Recorded(t.op, [status |-> "applied", ver |-> t.ver])
    /\ IF Awaiting(t) THEN Returned(t.op[1]) ELSE UNCHANGED agent
    /\ passed' = passed \cup {<<d, t.e>> : d \in {x \in Devices : Beyond(x, t.cursor)}}
    /\ UNCHANGED <<drawn, deviceVars, scene, stamp, cuts>>

Rollback(t) ==
    /\ t \in open /\ cuts < scene.faults
    /\ cuts' = cuts + 1
    /\ open' = open \ {t}
    /\ agent' = IF Awaiting(t) THEN [agent EXCEPT ![t.op[1]] = NoCycle] ELSE agent
    /\ UNCHANGED <<version, feed, drawn, ops, deviceVars, passed, scene, stamp>>

-----------------------------------------------------------------------------
(* The rest of the cycle: acknowledge the results in order, a conflict is   *)
(* recorded by its own call first; then pull.                               *)
Acked(d) == <<d, lcur[d] + 1>>

AckConflict(d) ==
    /\ agent[d].pc = "ack" /\ ~agent[d].noted
    /\ ops[Acked(d)].status = "conflict"
    /\ apply_remote(d, outbox[d][lcur[d] + 1].e, ops[Acked(d)].ver)
    /\ agent' = [agent EXCEPT ![d].noted = TRUE]
    /\ UNCHANGED <<feedVars, outbox, lcur, rcur, passed, scene, stamp, cuts>>

AckLocal_before(d) ==
    /\ agent[d].pc = "ack"
    /\ ops[Acked(d)].status = "conflict" => agent[d].noted
    /\ agent' = [agent EXCEPT ![d] =
                   IF lcur[d] + 1 < agent[d].last
                   THEN [agent[d] EXCEPT !.noted = FALSE]
                   ELSE [NoCycle EXCEPT !.pc = IF agent[d].full THEN "idle" ELSE "pull"]]
    /\ UNCHANGED <<feedVars, copy, outbox, lcur, rcur, conf, passed, scene, stamp, cuts>>

AckLocal(d) ==
    /\ agent[d].pc = "ack"
    /\ ops[Acked(d)].status = "conflict" => agent[d].noted
    /\ lcur' = [lcur EXCEPT ![d] = @ + 1]
    /\ agent' = [agent EXCEPT ![d] =
                   IF lcur[d] + 1 < agent[d].last
                   THEN [agent[d] EXCEPT !.noted = FALSE]
                   ELSE [NoCycle EXCEPT !.pc = IF agent[d].full THEN "idle" ELSE "pull"]]
    /\ UNCHANGED <<feedVars, copy, outbox, rcur, conf, passed, scene, stamp, cuts>>

(* The next rows of the feed after a cursor, in cursor order. *)
Between(c, d) == {r \in feed : c < r.cursor /\ r.cursor < d}

RowsAfter_next(c) ==
    {r \in feed : r.cursor > c + 1 /\ Cardinality(Between(c, r.cursor)) < PageSize}

RowsAfter(c) ==
    {r \in feed : r.cursor > c /\ Cardinality(Between(c, r.cursor)) < PageSize}

(* A cycle with nothing to push goes straight here; one that finds nothing  *)
(* in the feed either changes nothing.                                      *)
Pull(d) ==
    LET rows == RowsAfter(rcur[d])
    IN /\ \/ agent[d].pc = "pull"
          \/ agent[d].pc = "idle" /\ lcur[d] = Len(outbox[d]) /\ rows # {}
       /\ agent' = [agent EXCEPT ![d] =
                      IF rows = {} THEN NoCycle
                      ELSE [NoCycle EXCEPT !.pc = "apply", !.rows = rows,
                                           !.full = Cardinality(rows) = PageSize]]
       /\ UNCHANGED <<feedVars, deviceVars, passed, scene, stamp, cuts>>

PullApply(d) ==
    \E row \in agent[d].rows :
       /\ agent[d].pc = "apply"
       /\ \A r \in agent[d].rows : row.cursor <= r.cursor
       /\ apply_remote(d, row.e, row.ver)
       /\ rcur' = [rcur EXCEPT ![d] = IF @ > row.cursor THEN @ ELSE row.cursor]
       /\ agent' = [agent EXCEPT ![d] =
                      IF agent[d].rows # {row}
                      THEN [agent[d] EXCEPT !.rows = @ \ {row}]
                      ELSE [NoCycle EXCEPT !.pc = IF agent[d].full THEN "pull" ELSE "idle"]]
       /\ UNCHANGED <<feedVars, outbox, lcur, passed, scene, stamp, cuts>>

(* The cycle is cut: timeout, lost answer, agent or connection gone.  A     *)
(* transaction the server has open may still commit.                        *)
Interrupted(d) ==
    /\ agent[d].pc # "idle" /\ cuts < scene.faults
    /\ cuts' = cuts + 1
    /\ agent' = [agent EXCEPT ![d] = NoCycle]
    /\ UNCHANGED <<feedVars, deviceVars, passed, scene, stamp>>

-----------------------------------------------------------------------------
Cycle(d) ==
    \/ PushStart(d) \/ PushReplay(d) \/ PushRefused(d) \/ PushConflict(d)
    \/ PushFailed(d) \/ PushBegin(d) \/ AckConflict(d) \/ AckLocal(d) \/ Pull(d) \/ PullApply(d)

EditEntity(d, e) == write_daemon_entity(d, e) \/ tombstone_daemon_entity(d, e)

ResolveConflict(d, e) == use_remote(d, e) \/ keep_local(d, e)

ServerWrite(e) == publish_server_entity(e) \/ publish_server_tombstone(e)

SyncNext ==
    \/ \E d \in Devices : Cycle(d) \/ Interrupted(d)
    \/ \E w \in scene.edits : EditEntity(w[1], w[2])
    \/ \E d \in Devices, e \in Entities : ResolveConflict(d, e)
    \/ \E e \in scene.publishes : ServerWrite(e)
    \/ \E t \in open : Commit(t) \/ Rollback(t)

(* The agent's loop runs for ever and every transaction ends. *)
SyncFairness ==
    /\ \A d \in Devices : WF_syncVars(Cycle(d))
    /\ WF_syncVars(\E t \in open : Commit(t))

SyncSpec == SyncInit /\ [][SyncNext]_syncVars /\ SyncFairness

-----------------------------------------------------------------------------
\* The feed has exactly one row per revision of every entity, and its last row
\* is the current version, however pushes, retries, published changes and
\* rollbacks interleave: the entity lock spans reading the revision and writing
\* the next one.
FeedMatchesServer ==
    \A e \in Entities :
        LET rows == {r \in feed : r.e = e}
        IN /\ {r.ver.rev : r \in rows} = 1..version[e].rev
           /\ Cardinality(rows) = version[e].rev
           /\ \A r \in rows : r.ver.rev = version[e].rev => r.ver = version[e]

Same(v, w) == v.rev = w.rev /\ v.dead = w.dead /\ (v.dead \/ v.val = w.val)

Replaced(r) ==
    IF r.ver.rev = 1 THEN Absent
    ELSE (CHOOSE q \in feed : q.e = r.e /\ q.ver.rev = r.ver.rev - 1).ver

\* An earlier change of the device to the same entity was refused.
AfterConflict(op, e) ==
    \E c \in 1..(op[2] - 1) :
        /\ <<op[1], c>> \in DOMAIN ops /\ ops[<<op[1], c>>].status = "conflict"
        /\ outbox[op[1]][c].e = e

\* A pushed change replaces only the version its author had seen: optimistic
\* revisions keep a device from overwriting what it never read.  The exception
\* is a second offline edit of an entity whose first edit was refused: its base
\* revision may equal the server's by count alone, and it is applied.
NoLostUpdate ==
    \A r \in feed :
        r.op[2] = 0 \/ Same(r.on, Replaced(r)) \/ AfterConflict(r.op, r.e)

Blocked(d) ==
    \E i \in (lcur[d] + 1)..Len(outbox[d]) : outbox[d][i].e \in scene.rejected \cup scene.unfit

\* Whatever is cut short, the agent's cycles send every local change in the end,
\* unless one the server never accepts stands before it in the outbox.
OutboxDrained == \A d \in Devices : []<>(lcur[d] = Len(outbox[d]) \/ Blocked(d))

CaughtUp(d) ==
    /\ open = {} /\ agent[d] = NoCycle
    /\ lcur[d] = Len(outbox[d]) /\ \A r \in feed : r.cursor <= rcur[d]

\* A device that has pushed its outbox and read the feed to its end shows what
\* the server has, or an open conflict: nothing diverges silently.  The
\* exception is a change that committed behind a cursor the device had already
\* passed, which a published tombstone can do because it takes no quota lock.
CaughtUpAgrees ==
    \A d \in Devices : CaughtUp(d) =>
        \A e \in Entities :
            \/ Same(copy[d][e], version[e])
            \/ conf[d][e].open
            \/ <<d, e>> \in passed
-----------------------------------------------------------------------------
(* A laptop and a desktop share e1; e2 is new.  Conflict: both edit e1, the  *)
(* laptop twice.  Retry: the same with one interruption.  Order: the server *)
(* writes beside the laptop.  Invalid: the laptop's e2 fails validation.     *)
(* Unfit: the canonical tables do not take it.                               *)
Conflict == [edits |-> {<<"laptop", "e1">>, <<"desktop", "e1">>}, publishes |-> {},
             rejected |-> {}, unfit |-> {}, writes |-> 3, faults |-> 0]
Retry == [Conflict EXCEPT !.writes = 2, !.faults = 1]
Order == [Conflict EXCEPT !.edits = {<<"laptop", "e1">>}, !.publishes = {"e1", "e2"}]
Invalid == [Conflict EXCEPT !.edits = {"laptop"} \X {"e1", "e2"}, !.rejected = {"e2"}, !.writes = 2]
Unfit == [Invalid EXCEPT !.rejected = {}, !.unfit = {"e2"}]
SmallScenes == {Conflict, Retry, Order, Invalid, Unfit}
=============================================================================
