--------------------------- MODULE SnapshotStore ----------------------------
(***************************************************************************)
(* Snapshot storage: manifests, content-addressed chunks with reference    *)
(* counts, upload reservations and project versions in PostgreSQL, and the *)
(* encrypted chunk objects in S3, which no transaction covers.             *)
(*                                                                         *)
(* Uploads, commits, deletions, merges and the garbage collector are       *)
(* handlers of several steps.  A step is a transaction, a statement on its *)
(* own, or an S3 call.  Sizes, encryption scopes, warnings and quotas are  *)
(* left out; a chunk occurs once in a manifest.                            *)
(***************************************************************************)
EXTENDS Naturals, FiniteSets

CONSTANTS
  Manifests,   \* snapshot manifest ids
  Chunks,      \* chunk digests, of one encryption scope
  Uses,        \* Uses[m]: the chunks of the files of m
  Collectors,  \* worker processes, each of which collects garbage
  NoManifest,  \* the collector is not expiring a snapshot
  Mergeable,   \* manifests that may come from a merge instead of an upload
  Deletable,   \* manifests that users may delete
  Versioned,   \* manifests that users may make project versions of
  MaxFaults    \* bound: lost S3 calls and handlers that die

StoreAssumption ==
  /\ IsFiniteSet(Manifests) /\ IsFiniteSet(Chunks)
  /\ Uses \in [Manifests -> SUBSET Chunks]
  /\ NoManifest \notin Manifests
  /\ Mergeable \subseteq Manifests /\ Deletable \subseteq Manifests
  /\ Versioned \subseteq Manifests
  /\ MaxFaults \in Nat

VARIABLES
  status,    \* snapshot_manifests.status; "merging" before a merge inserts it
  mapped,    \* snapshot_manifest_chunks
  reserved,  \* snapshot_chunk_reservations
  chunk,     \* snapshot_chunks.status, or "absent"
  refCount,  \* snapshot_chunks.ref_count
  object,    \* the S3 object: none, the row's, or another upload's ciphertext
  versions,  \* manifests that a project version refers to
  upload,    \* upload[m][c]: progress of an upload of c for m
  commit,    \* commit[m]: commit_snapshot has checked the chunks of m
  deletion,  \* deletion[m]: progress of delete_snapshot
  gc,        \* gc[w]: progress of garbage_collect
  raced,     \* history: chunks hit by one of the races named below
  late,      \* history: manifests written to while they were being deleted
  stranded,  \* history: chunks left in status deleting
  faults     \* faults so far

tables == <<status, mapped, reserved, chunk, refCount, versions>>
handlers == <<upload, commit, deletion, gc>>
vars == <<status, mapped, reserved, chunk, refCount, object, versions, upload,
          commit, deletion, gc, raced, late, stranded, faults>>

IdleCollector == [step |-> "idle", manifest |-> NoManifest, todo |-> {}]
Steps == {"idle", "listed", "counted", "released", "delete", "row", "restore"}
Collector == [step : Steps, manifest : Manifests \cup {NoManifest}, todo : SUBSET Chunks]

\* Every column and every handler keeps its domain.
TypeOK ==
  /\ status \in [Manifests -> {"absent", "merging", "uploading", "ready", "expired"}]
  /\ mapped \subseteq Manifests \X Chunks /\ reserved \subseteq Manifests \X Chunks
  /\ chunk \in [Chunks -> {"absent", "ready", "deleting"}]
  /\ refCount \in [Chunks -> Nat]
  /\ object \in [Chunks -> {"none", "row", "other"}]
  /\ versions \subseteq Manifests
  /\ upload \in [Manifests -> [Chunks -> {"none", "accepted", "found", "missing", "stored"}]]
  /\ commit \in [Manifests -> BOOLEAN]
  /\ deletion \in [Manifests -> {"none", "ready", "counted", "released", "unreserved"}]
  /\ gc \in [Collectors -> Collector]
  /\ raced \subseteq Chunks /\ late \subseteq Manifests /\ stranded \subseteq Chunks
  /\ faults \in 0..MaxFaults

Init ==
  /\ status = [m \in Manifests |-> "absent"]
  /\ mapped = {} /\ reserved = {}
  /\ chunk = [c \in Chunks |-> "absent"]
  /\ refCount = [c \in Chunks |-> 0]
  /\ object = [c \in Chunks |-> "none"]
  /\ versions = {}
  /\ upload = [m \in Manifests |-> [c \in Chunks |-> "none"]]
  /\ commit = [m \in Manifests |-> FALSE]
  /\ deletion = [m \in Manifests |-> "none"]
  /\ gc = [w \in Collectors |-> IdleCollector]
  /\ raced = {} /\ late = {} /\ stranded = {} /\ faults = 0

Fault == faults < MaxFaults /\ faults' = faults + 1
ChunksOf(m) == {m} \X Uses[m]
-----------------------------------------------------------------------------
(* Uploading.                                                              *)

\* begin_snapshot_upload: the manifest, and reservations of the chunks that
\* are there already.
begin_snapshot_upload(m) ==
  /\ status[m] = "absent"
  /\ status' = [status EXCEPT ![m] = "uploading"]
  /\ reserved' = reserved \cup {p \in ChunksOf(m) : chunk[p[2]] = "ready"}
  /\ UNCHANGED <<mapped, chunk, refCount, object, versions, handlers, raced, late,
                 stranded, faults>>

\* upload_snapshot_chunk reads the manifest's status, before its transaction.
upload_request(m, c) ==
  /\ status[m] = "uploading" /\ c \in Uses[m] /\ upload[m][c] = "none"
  /\ upload' = [upload EXCEPT ![m][c] = "accepted"]
  /\ UNCHANGED <<tables, object, commit, deletion, gc, raced, late, stranded, faults>>

\* Under the advisory lock of the digest a ready row is looked for.
upload_lookup(m, c) ==
  /\ upload[m][c] = "accepted"
  /\ \A n \in Manifests : upload[n][c] \notin {"found", "missing", "stored"}
  /\ upload' = [upload EXCEPT ![m][c] = IF chunk[c] = "ready" THEN "found" ELSE "missing"]
  /\ UNCHANGED <<tables, object, commit, deletion, gc, raced, late, stranded, faults>>

\* The request is over; a failure also ends the merge it was made for.
Served(m, c) == upload' = [upload EXCEPT ![m][c] = "none"] /\ UNCHANGED status
Refused(m, c) ==
  IF status[m] = "merging"
    THEN /\ upload' = [upload EXCEPT ![m] = [d \in Chunks |-> "none"]]
         /\ status' = [status EXCEPT ![m] = "absent"]
    ELSE Served(m, c)

\* insert_chunk_reservation, by an upload; a merge reserves nothing.
Reserve(m, c) ==
  /\ reserved' = IF status[m] = "merging" THEN reserved ELSE reserved \cup {<<m, c>>}
  /\ late' = IF status[m] \in {"expired", "ready"} \/ deletion[m] = "unreserved"
               THEN late \cup {m} ELSE late

\* The row was found: it is reserved, and the object is not uploaded.  The
\* row may have been marked meanwhile; if it is gone the insert fails.
upload_reserve(m, c) ==
  /\ upload[m][c] = "found"
  /\ Served(m, c)
  /\ IF chunk[c] = "absent" THEN UNCHANGED <<reserved, late>> ELSE Reserve(m, c)
  /\ raced' = IF chunk[c] = "deleting" /\ status[m] # "merging"
                THEN raced \cup {c} ELSE raced
  /\ UNCHANGED <<mapped, chunk, refCount, object, versions, commit, deletion,
                 gc, stranded, faults>>

\* put_encrypted: the object is overwritten with ciphertext under a new key.
upload_put(m, c) ==
  /\ upload[m][c] = "missing"
  /\ upload' = [upload EXCEPT ![m][c] = "stored"]
  /\ object' = [object EXCEPT ![c] = "other"]
  /\ raced' = IF chunk[c] = "ready" THEN raced \cup {c} ELSE raced
  /\ UNCHANGED <<tables, commit, deletion, gc, late, stranded, faults>>

\* The row that knows the key is inserted, with the reservation.  A row that
\* is there, being deleted or restored, makes the insert fail.
upload_insert(m, c) ==
  /\ upload[m][c] = "stored"
  /\ IF chunk[c] # "absent"
       THEN Refused(m, c) /\ UNCHANGED <<chunk, object, reserved, late>>
       ELSE /\ Served(m, c)
            /\ chunk' = [chunk EXCEPT ![c] = "ready"]
            /\ object' = [object EXCEPT ![c] = IF @ = "other" THEN "row" ELSE @]
            /\ Reserve(m, c)
  /\ UNCHANGED <<mapped, refCount, versions, commit, deletion, gc, raced,
                 stranded, faults>>

\* The PUT fails, the client goes away or the server stops: rolled back.
upload_fails(m, c) ==
  /\ upload[m][c] \in {"found", "missing", "stored"} /\ Fault
  /\ Refused(m, c)
  /\ UNCHANGED <<mapped, reserved, chunk, refCount, object, versions, commit, deletion,
                 gc, raced, late, stranded>>
-----------------------------------------------------------------------------
(* Becoming ready.                                                         *)

\* The mappings, one more reference for each chunk, status ready.  Marked
\* chunks are referred to as well.
MakeReady(m) ==
  /\ status' = [status EXCEPT ![m] = "ready"]
  /\ mapped' = mapped \cup ChunksOf(m)
  /\ refCount' = [c \in Chunks |-> refCount[c] + IF c \in Uses[m] THEN 1 ELSE 0]
  /\ raced' = raced \cup {c \in Uses[m] : chunk[c] = "deleting"}

\* Mutant: a repeated commit is not recognised.
commit_check_again(m) ==
  /\ status[m] \in {"uploading", "ready"} /\ ~commit[m]
  /\ \A c \in Uses[m] : chunk[c] = "ready"
  /\ commit' = [commit EXCEPT ![m] = TRUE]
  /\ UNCHANGED <<tables, object, upload, deletion, gc, raced, late, stranded, faults>>

\* commit_snapshot, up to its first write: the manifest's row is locked and
\* all chunks are ready.  They are not locked, and need not be reserved.
commit_check(m) ==
  /\ status[m] = "uploading" /\ ~commit[m]
  /\ \A c \in Uses[m] : chunk[c] = "ready"
  /\ commit' = [commit EXCEPT ![m] = TRUE]
  /\ UNCHANGED <<tables, object, upload, deletion, gc, raced, late, stranded, faults>>

\* The rest of the transaction; it fails if a chunk's row is gone.
commit_snapshot(m) ==
  /\ commit[m]
  /\ commit' = [commit EXCEPT ![m] = FALSE]
  /\ IF \A c \in Uses[m] : chunk[c] # "absent"
       THEN /\ MakeReady(m)
            /\ reserved' = reserved \ ({m} \X Chunks)
            /\ late' = IF deletion[m] # "none" THEN late \cup {m} ELSE late
       ELSE UNCHANGED <<status, mapped, refCount, reserved, raced, late>>
  /\ UNCHANGED <<chunk, object, versions, upload, deletion, gc, stranded, faults>>

\* apply_project_merge: other files are taken over from the versions that are
\* merged, and automatically merged ones are stored chunk by chunk with
\* persist_plaintext_chunk (which shares the steps of an upload) ...
begin_merge(m) ==
  /\ m \in Mergeable /\ status[m] = "absent"
  /\ status' = [status EXCEPT ![m] = "merging"]
  /\ \E merged \in SUBSET Uses[m] :
       /\ Uses[m] \ merged \subseteq UNION {Uses[v] : v \in versions}
       /\ upload' = [upload EXCEPT ![m] =
                       [c \in Chunks |-> IF c \in merged THEN "accepted" ELSE "none"]]
  /\ UNCHANGED <<mapped, reserved, chunk, refCount, object, versions, commit, deletion,
                 gc, raced, late, stranded, faults>>

\* ... and create_ready_manifest inserts the manifest, whatever the status of
\* the chunks; it fails if one is gone.
create_ready_manifest(m) ==
  /\ status[m] = "merging" /\ \A c \in Chunks : upload[m][c] = "none"
  /\ IF \A c \in Uses[m] : chunk[c] # "absent"
       THEN MakeReady(m)
       ELSE /\ status' = [status EXCEPT ![m] = "absent"]
            /\ UNCHANGED <<mapped, refCount, raced>>
  /\ UNCHANGED <<reserved, chunk, object, versions, handlers, late, stranded, faults>>

\* create_project_version, and the last transaction of apply_project_merge: the
\* snapshot is looked at, not locked.
create_project_version(m) ==
  /\ m \in Versioned \ versions /\ status[m] = "ready"
  /\ versions' = versions \cup {m}
  /\ UNCHANGED <<status, mapped, reserved, chunk, refCount, object, handlers, raced,
                 late, stranded, faults>>
-----------------------------------------------------------------------------
(* Releasing references: release_manifest_references.                      *)

\* Mutant: the counter is decremented without GREATEST.
LessReferencesUnbounded(m) == [c \in Chunks |-> IF c \in Uses[m] THEN refCount[c] - 1 ELSE refCount[c]]

\* GREATEST(ref_count - count, 0) for the chunks counted before.
LessReferences(m) ==
  [c \in Chunks |-> IF c \in Uses[m] /\ refCount[c] > 0 THEN refCount[c] - 1 ELSE refCount[c]]

\* The UPDATE counts the mappings as its statement starts and may then wait
\* for another release of the same manifest, whose decrement it repeats.
Counts(m) == \E c \in Chunks : <<m, c>> \in mapped

Release(m) ==
  /\ refCount' = LessReferences(m)
  /\ mapped' = mapped \ ({m} \X Chunks)
  /\ raced' = IF Counts(m) THEN raced ELSE raced \cup Uses[m]

\* delete_snapshot: the status and the versions are read first ...
delete_read(m) ==
  /\ m \in Deletable \ versions /\ deletion[m] = "none"
  /\ status[m] \in {"uploading", "ready", "expired"}
  /\ deletion' = [deletion EXCEPT ![m] = IF status[m] = "ready" THEN "ready" ELSE "released"]
  /\ UNCHANGED <<tables, object, upload, commit, gc, raced, late, stranded, faults>>

\* ... the references of a ready snapshot are counted ...
delete_count(m) ==
  /\ deletion[m] = "ready"
  /\ deletion' = [deletion EXCEPT ![m] = IF Counts(m) THEN "counted" ELSE "released"]
  /\ UNCHANGED <<tables, object, upload, commit, gc, raced, late, stranded, faults>>

\* ... and released ...
delete_release(m) ==
  /\ deletion[m] = "counted"
  /\ deletion' = [deletion EXCEPT ![m] = "released"]
  /\ Release(m)
  /\ UNCHANGED <<status, reserved, chunk, object, versions, upload, commit, gc, late,
                 stranded, faults>>

\* ... the reservations removed ...
delete_unreserve(m) ==
  /\ deletion[m] = "released"
  /\ deletion' = [deletion EXCEPT ![m] = "unreserved"]
  /\ reserved' = reserved \ ({m} \X Chunks)
  /\ UNCHANGED <<status, mapped, chunk, refCount, object, versions, upload, commit, gc,
                 raced, late, stranded, faults>>

\* ... and the status set, once no commit has the row locked.
delete_expire(m) ==
  /\ deletion[m] = "unreserved" /\ ~commit[m]
  /\ deletion' = [deletion EXCEPT ![m] = "none"]
  /\ status' = [status EXCEPT ![m] = "expired"]
  /\ UNCHANGED <<mapped, reserved, chunk, refCount, object, versions, upload, commit, gc,
                 raced, late, stranded, faults>>

\* A statement fails or the handler is dropped; nothing is undone.
delete_fails(m) ==
  /\ deletion[m] # "none" /\ Fault
  /\ deletion' = [deletion EXCEPT ![m] = "none"]
  /\ UNCHANGED <<tables, object, upload, commit, gc, raced, late, stranded>>
-----------------------------------------------------------------------------
(* garbage_collect.                                                        *)

At(w, step) == gc[w].step = step
Goto(w, step) == gc' = [gc EXCEPT ![w].step = step]

\* Mutant: an abandoned upload keeps its reservations.
gc_abandon_only(w, m) ==
  /\ At(w, "idle") /\ status[m] = "uploading" /\ ~commit[m]
  /\ status' = [status EXCEPT ![m] = "expired"]
  /\ UNCHANGED <<mapped, reserved, chunk, refCount, object, versions, handlers, raced,
                 late, stranded, faults>>

\* An upload older than a day is given up.
gc_abandon(w, m) ==
  /\ At(w, "idle") /\ status[m] = "uploading" /\ ~commit[m]
  /\ status' = [status EXCEPT ![m] = "expired"]
  /\ reserved' = reserved \ ({m} \X Chunks)
  /\ UNCHANGED <<mapped, chunk, refCount, object, versions, handlers, raced, late,
                 stranded, faults>>

\* A ready snapshot past its expiry, of no version, is put on the list ...
gc_list(w, m) ==
  /\ At(w, "idle") /\ status[m] = "ready" /\ m \notin versions
  /\ gc' = [gc EXCEPT ![w] = [step |-> "listed", manifest |-> m, todo |-> {}]]
  /\ UNCHANGED <<tables, object, upload, commit, deletion, raced, late, stranded, faults>>

\* ... its references counted ...
gc_count(w) ==
  /\ At(w, "listed")
  /\ Goto(w, IF Counts(gc[w].manifest) THEN "counted" ELSE "released")
  /\ UNCHANGED <<tables, object, upload, commit, deletion, raced, late, stranded, faults>>

\* ... and released ...
gc_release(w) ==
  /\ At(w, "counted") /\ Goto(w, "released")
  /\ Release(gc[w].manifest)
  /\ UNCHANGED <<status, reserved, chunk, object, versions, upload, commit, deletion,
                 late, stranded, faults>>

\* ... and its status set.
gc_expire(w) ==
  /\ At(w, "released")
  /\ gc' = [gc EXCEPT ![w] = IdleCollector]
  /\ status' = [status EXCEPT ![gc[w].manifest] = "expired"]
  /\ UNCHANGED <<mapped, reserved, chunk, refCount, object, versions, upload, commit,
                 deletion, raced, late, stranded, faults>>

\* Mutant: reservations are not looked at.
UnreferencedChunks == {c \in Chunks : chunk[c] = "ready" /\ refCount[c] = 0}

\* ref_count = 0, ready, and not reserved by any upload.
Collectable ==
  {c \in Chunks : chunk[c] = "ready" /\ refCount[c] = 0 /\ \A m \in Manifests : <<m, c>> \notin reserved}

\* One statement marks them; then they are deleted one by one.
gc_mark(w) ==
  /\ At(w, "idle") /\ Collectable # {}
  /\ chunk' = [c \in Chunks |-> IF c \in Collectable THEN "deleting" ELSE chunk[c]]
  /\ gc' = [gc EXCEPT ![w] = [step |-> "delete", manifest |-> NoManifest, todo |-> Collectable]]
  /\ UNCHANGED <<status, mapped, reserved, refCount, object, versions, upload, commit,
                 deletion, raced, late, stranded, faults>>

\* The chunk whose turn it is.
Current(w) == CHOOSE c \in gc[w].todo : TRUE

\* The S3 DELETE succeeds.  An upload of the digest that has stored its
\* object loses it.
gc_delete_object(w) ==
  LET c == Current(w) IN
  /\ At(w, "delete") /\ Goto(w, "row")
  /\ object' = [object EXCEPT ![c] = "none"]
  /\ raced' = IF \E m \in Manifests : upload[m][c] = "stored" THEN raced \cup {c} ELSE raced
  /\ UNCHANGED <<tables, upload, commit, deletion, late, stranded, faults>>

\* It fails, or only its answer is lost.
gc_delete_fails(w) ==
  LET c == Current(w) IN
  /\ At(w, "delete") /\ Goto(w, "restore") /\ Fault
  /\ \/ object' = [object EXCEPT ![c] = "none"]
     \/ UNCHANGED object
  /\ UNCHANGED <<tables, upload, commit, deletion, raced, late, stranded>>

\* The loop goes on with the next chunk.
Continue(w) ==
  LET rest == gc[w].todo \ {Current(w)} IN
  gc' = [gc EXCEPT ![w] = IF rest = {} THEN IdleCollector
                          ELSE [step |-> "delete", manifest |-> NoManifest, todo |-> rest]]

\* The row goes, with its reservations, unless it has been referred to since:
\* then it stays marked.  A row with mappings and count 0 fails on the foreign
\* key, which ends the collection and leaves the other chunks marked.
gc_delete_row(w) ==
  LET c == Current(w)
      inUse == \E m \in Manifests : <<m, c>> \in mapped
  IN
  /\ At(w, "row")
  /\ \/ /\ refCount[c] = 0 /\ ~inUse
        /\ chunk' = [chunk EXCEPT ![c] = "absent"]
        /\ reserved' = reserved \ (Manifests \X {c})
        /\ Continue(w) /\ UNCHANGED stranded
     \/ /\ refCount[c] > 0
        /\ stranded' = stranded \cup {c}
        /\ Continue(w) /\ UNCHANGED <<chunk, reserved>>
     \/ /\ refCount[c] = 0 /\ inUse
        /\ stranded' = stranded \cup gc[w].todo
        /\ gc' = [gc EXCEPT ![w] = IdleCollector] /\ UNCHANGED <<chunk, reserved>>
  /\ UNCHANGED <<status, mapped, refCount, object, versions, upload, commit, deletion,
                 raced, late, faults>>

\* Mutant: a failed deletion leaves the chunk marked.
gc_give_up(w) ==
  /\ At(w, "restore") /\ Continue(w)
  /\ UNCHANGED <<tables, object, upload, commit, deletion, raced, late, stranded, faults>>

\* After a failure the row is ready again, whatever the object is now.
gc_restore(w) ==
  LET c == Current(w) IN
  /\ At(w, "restore") /\ Continue(w)
  /\ chunk' = [chunk EXCEPT ![c] = "ready"]
  /\ raced' = IF object[c] = "row" THEN raced ELSE raced \cup {c}
  /\ UNCHANGED <<status, mapped, reserved, refCount, object, versions, upload, commit,
                 deletion, late, stranded, faults>>

\* The worker stops, or a statement fails.  Marked chunks stay marked: no
\* later collection looks at them.
gc_dies(w) ==
  /\ ~At(w, "idle") /\ Fault
  /\ gc' = [gc EXCEPT ![w] = IdleCollector]
  /\ stranded' = stranded \cup gc[w].todo
  /\ UNCHANGED <<tables, object, upload, commit, deletion, raced, late>>
-----------------------------------------------------------------------------
UploadStep ==
  \E m \in Manifests, c \in Chunks :
    \/ upload_request(m, c) \/ upload_lookup(m, c) \/ upload_reserve(m, c)
    \/ upload_put(m, c) \/ upload_insert(m, c) \/ upload_fails(m, c)

ManifestStep ==
  \E m \in Manifests :
    \/ begin_snapshot_upload(m) \/ commit_check(m) \/ commit_snapshot(m)
    \/ begin_merge(m) \/ create_ready_manifest(m) \/ create_project_version(m)
    \/ delete_read(m) \/ delete_count(m) \/ delete_release(m) \/ delete_unreserve(m)
    \/ delete_expire(m) \/ delete_fails(m)

CollectStep(w) ==
  \/ gc_count(w) \/ gc_release(w) \/ gc_expire(w) \/ gc_mark(w)
  \/ gc_delete_object(w) \/ gc_delete_row(w) \/ gc_restore(w)

Next ==
  \/ UploadStep \/ ManifestStep
  \/ \E w \in Collectors :
       \/ CollectStep(w) \/ gc_delete_fails(w) \/ gc_dies(w)
       \/ \E m \in Manifests : gc_abandon(w, m) \/ gc_list(w, m)

\* Workers go on collecting; faults are bounded.
Spec == Init /\ [][Next]_vars /\ \A w \in Collectors : WF_vars(CollectStep(w))
-----------------------------------------------------------------------------
References(c) == {m \in Manifests : <<m, c>> \in mapped}

\* The reference count of a chunk is the number of manifests that refer to
\* it, and never more than that, whichever deletions, expiries and commits
\* overlap; only a repeated release makes it less.
CountsAgree ==
  \A c \in Chunks :
    /\ refCount[c] <= Cardinality(References(c))
    /\ c \notin raced => refCount[c] = Cardinality(References(c))

\* A chunk that a snapshot refers to or that an upload has reserved can be
\* read back: its row is ready and the object is the row's.  The only ways to
\* lose one are the races recorded in `raced': a lost answer to a deletion or
\* an upload that overlaps with it, a commit or a reservation of a chunk
\* marked a moment ago, and two releases of the same manifest.
ReadableUnlessRaced ==
  \A p \in mapped \cup reserved :
    p[2] \notin raced => chunk[p[2]] = "ready" /\ object[p[2]] = "row"

\* What is expired holds no chunk, so that nothing is kept for ever, unless
\* an upload or a commit went on while the snapshot was being deleted.
ExpiredHoldsNothing ==
  \A p \in mapped \cup reserved : status[p[1]] = "expired" => p[1] \in late

\* All three, for the handlers of storage.rs.
SnapshotsSound == CountsAgree /\ ReadableUnlessRaced /\ ExpiredHoldsNothing

\* A chunk that nothing refers to is removed in the end, unless a collector
\* died over it or gave it up: nobody takes up a chunk left in `deleting'.
Uncollected(c) ==
  /\ chunk[c] # "absent" /\ c \notin stranded
  /\ \A m \in Manifests : <<m, c>> \notin mapped \cup reserved
CollectedUnlessStranded == \A c \in Chunks : ~<>[]Uncollected(c)

\* As the error text of delete_snapshot says, `snapshot is retained by a
\* project version': the chunks of a version's snapshot stay referred to.
RetainedByVersion == \A m \in versions : ChunksOf(m) \subseteq mapped
=============================================================================
