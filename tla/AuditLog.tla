------------------------------- MODULE AuditLog -------------------------------
(* The signed audit log of the desktop application (app/src-tauri/src/            *)
(* audit_service.rs): every record carries a sequence number, the code of the     *)
(* record before it and its own, files are rotated, and the whole retained chain   *)
(* is verified before a record is appended. One process writes, under a lock; it   *)
(* may exit between any two file operations, and records or files may get lost.    *)
(* This is the Windows build: the others have no key ring and never open the log.   *)
EXTENDS Integers, Sequences, SequencesExt

CONSTANTS PerFile,      \* records that fit a file (MAX_AUDIT_FILE_BYTES)
          MaxArchives,  \* MAX_AUDIT_ARCHIVES
          MaxRecords, MaxCrashes, MaxLosses   \* bounds

(* A signed record. The code ("mac") is unique to a record and its contents.       *)
Signed(seq, prev, mac) == [seq |-> seq, prev |-> prev, mac |-> mac]
Legacy == Signed(0, 0, 0)    \* a record of the time before signing
Torn == Signed(-1, 0, 0)     \* a line without its end

VARIABLES files,    \* [0 .. MaxArchives -> records]; 0 is events.jsonl
          key,      \* does the key ring hold the signing key
          marker,   \* does the key ring hold the signed-history marker
          writer,   \* [at, step, record] of the append under way
          log,      \* codes of the records written and not lost from the end since
          made, torn, lost, crashes

vars == <<files, key, marker, writer, log, made, torn, lost, crashes>>

Rest == [at |-> "idle", step |-> 0, record |-> Legacy]

Init ==
    /\ \E old \in {<<>>, <<Legacy>>} :
          files = [i \in 0 .. MaxArchives |-> IF i = 0 THEN old ELSE <<>>]
    /\ key = FALSE /\ marker = FALSE
    /\ writer = Rest
    /\ log = <<>> /\ made = 0 /\ torn = FALSE /\ lost = 0 /\ crashes = 0

-----------------------------------------------------------------------------
(* retained_audit_paths: the archives from the oldest on, then the active file     *)
Retained == FlattenSeq([i \in 1 .. MaxArchives + 1 |-> files[MaxArchives + 1 - i]])

IsSigned(r) == r.seq > 0
Chain == SelectSeq(Retained, IsSigned)

Linked_anchored(a, b) == b.seq = 1 <=> b.prev = 0
Linked(a, b) == b.seq = a.seq + 1 /\ b.prev = a.mac

(* verify_chain; a lost key leaves nothing to verify with                          *)
Tampered ==
    \/ \E i \in DOMAIN Retained : Retained[i] = Torn
    \/ \E i, j \in DOMAIN Retained : i < j /\ IsSigned(Retained[i]) /\ Retained[j] = Legacy
    \/ \E i \in DOMAIN Chain : (Chain[i].seq = 1) # (Chain[i].prev = 0)
    \/ \E i \in DOMAIN Chain : i > 1 /\ ~Linked(Chain[i - 1], Chain[i])

HasHistory == Retained # <<>>
KeyAvailable == key \/ ~HasHistory

(* reconcile_history_marker: signed records were seen once and are all gone         *)
HistoryMissing == marker /\ Chain = <<>>

PermitsRead == KeyAvailable /\ ~Tampered /\ ~HistoryMissing

Newest == IF Chain = <<>> THEN Legacy ELSE Chain[Len(Chain)]

-----------------------------------------------------------------------------
(* append_legacy_event up to the rotation                                          *)
append_begin ==
    /\ writer.at = "idle"
    /\ made < MaxRecords
    /\ PermitsRead
    /\ key' = TRUE
    /\ marker' = (marker \/ Chain # <<>>)
    /\ made' = made + 1
    /\ writer' = [at |-> IF Len(files[0]) >= PerFile THEN "rotate" ELSE "write",
                  step |-> MaxArchives + 1,
                  record |-> Signed(Newest.seq + 1, Newest.mac, made + 1)]
    /\ UNCHANGED <<files, log, torn, lost, crashes>>

(* rotate_if_needed, one file operation per step: the oldest archive goes, every    *)
(* other one moves up, and the active file becomes archive 1.                      *)
remove_oldest ==
    /\ writer.at = "rotate"
    /\ writer.step > MaxArchives
    /\ files' = [files EXCEPT ![MaxArchives] = <<>>]
    /\ writer' = [writer EXCEPT !.step = @ - 1]
    /\ UNCHANGED <<key, marker, log, made, torn, lost, crashes>>

rotate ==
    /\ writer.at = "rotate"
    /\ LET n == writer.step IN
       /\ n <= MaxArchives
       /\ files' = [files EXCEPT ![n] = files[n - 1], ![n - 1] = <<>>]
       /\ writer' = [writer EXCEPT !.step = @ - 1, !.at = IF n = 1 THEN "write" ELSE "rotate"]
    /\ UNCHANGED <<key, marker, log, made, torn, lost, crashes>>

write ==
    /\ writer.at = "write"
    /\ files' = [files EXCEPT ![0] = Append(@, writer.record)]
    /\ log' = Append(log, writer.record.mac)
    /\ writer' = [writer EXCEPT !.at = "mark"]
    /\ UNCHANGED <<key, marker, made, torn, lost, crashes>>

persist_native_history_marker ==
    /\ writer.at = "mark"
    /\ marker' = TRUE
    /\ writer' = Rest
    /\ UNCHANGED <<files, key, log, made, torn, lost, crashes>>

(* The process ends, or a file operation or the key ring fails: what was done stays. *)
cut_short ==
    /\ writer.at # "idle"
    /\ crashes < MaxCrashes /\ crashes' = crashes + 1
    /\ writer' = Rest
    /\ UNCHANGED <<files, key, marker, log, made, torn, lost>>

(* ... in the middle of a line: every later verification fails.                     *)
torn_write ==
    /\ writer.at = "write"
    /\ crashes < MaxCrashes /\ crashes' = crashes + 1
    /\ files' = [files EXCEPT ![0] = Append(@, Torn)]
    /\ torn' = TRUE
    /\ writer' = Rest
    /\ UNCHANGED <<key, marker, log, made, lost>>

(* verify_audit_integrity, verified_audit_tail: the marker catches up               *)
verify ==
    /\ writer.at = "idle"
    /\ key' = (key \/ KeyAvailable)
    /\ marker' = (marker \/ (PermitsRead /\ Chain # <<>>))
    /\ UNCHANGED <<files, writer, log, made, torn, lost, crashes>>

(* Something else loses a record, a file or the key ring's entry. The newest records *)
(* can go unseen (the chain is not anchored at its end), so they leave the log too.   *)
Losing == writer.at = "idle" /\ lost < MaxLosses /\ lost' = lost + 1

StillCovered(m) == \E i \in DOMAIN files' : \E k \in DOMAIN files'[i] : files'[i][k].mac >= m

loses_records ==
    /\ Losing
    /\ \/ \E i \in 0 .. MaxArchives : \E k \in DOMAIN files[i] :
             files' = [files EXCEPT ![i] = RemoveAt(@, k)]
       \/ \E i \in 0 .. MaxArchives : files[i] # <<>> /\ files' = [files EXCEPT ![i] = <<>>]
    /\ log' = SelectSeq(log, StillCovered)
    /\ UNCHANGED <<key, marker, writer, made, torn, crashes>>

loses_key ==
    /\ Losing
    /\ key
    /\ key' = FALSE
    /\ UNCHANGED <<files, marker, writer, log, made, torn, crashes>>

Next == \/ append_begin \/ remove_oldest \/ rotate \/ write \/ persist_native_history_marker
        \/ cut_short \/ torn_write \/ verify \/ loses_records \/ loses_key

Spec == Init /\ [][Next]_vars

-----------------------------------------------------------------------------
(* As long as nothing is lost and no line is torn, a log that was signed from its    *)
(* first record on verifies: an exit or a failure between any two steps of a rotation *)
(* or an append never turns it into one that is reported as tampered and refuses every *)
(* later record (rotate_if_needed, append_with_key, reconcile_history_marker).        *)
UndamagedVerifies ==
    (lost = 0 /\ ~torn /\ ~Contains(Retained, Legacy)) => PermitsRead

(* A log that verifies holds an unbroken run of the records that were written: a      *)
(* lost record or archive in the middle is always noticed (verify_chain).              *)
VerifiedIsUnbroken ==
    PermitsRead =>
        LET kept == [i \in DOMAIN Chain |-> Chain[i].mac] IN
        kept = <<>> \/ \E i \in DOMAIN log :
            /\ i + Len(kept) - 1 <= Len(log)
            /\ kept = SubSeq(log, i, i + Len(kept) - 1)

(* Both: what the audit view reports can be relied on.                              *)
AuditSound == UndamagedVerifies /\ VerifiedIsUnbroken
=============================================================================
