------------------------------- MODULE AppFiles -------------------------------
(* The file commands of the desktop application (app/src-tauri/src/file_safety.rs,      *)
(* fs_* of lib.rs): text files are written with or without a backup of what they held,   *)
(* files and folders are created, copied, moved and deleted, backups restored. Commands    *)
(* run one at a time; each of the calls of one may fail, and the application may end in      *)
(* the middle of a write. All paths lie in the allowed folders.                               *)
EXTENDS Integers, FiniteSets

CONSTANTS Nodes,      \* paths, numbers from 1 on
          Parent,     \* the folder of a path, Root for the topmost
          Base,       \* the file name of a path
          Texts,      \* what files hold, numbers from 1 on
          MaxSecond,  \* the clock of the names of backups, in seconds
          MaxOps, MaxFaults   \* bounds

Root == 0
None == 0
Folder == -1
Torn == -2

VARIABLES fs,         \* what is at a path: None, Folder, Torn or a text
          backups,    \* by <<second, file name>>
          promised,   \* texts a backup was made of
          collided,   \* texts whose backup was overwritten by one of the same name
          second,
          step,       \* the command that was run: [op, src, dst, apart]
          ops, faults

vars == <<fs, backups, promised, collided, second, step, ops, faults>>

Exists(n) == fs[n] # None
Inside(n) == {m \in Nodes : Parent[m] = n}
Under(n) == {n} \union Inside(n)
Names == {Base[n] : n \in Nodes}
Slots == (0..MaxSecond) \X Names
Tree(f) == \A n \in Nodes : /\ f[n] # None => Parent[n] = Root \/ f[Parent[n]] = Folder
                            /\ Inside(n) = {} => f[n] # Folder

NoStep == [op |-> "none", src |-> 0, dst |-> 0, apart |-> TRUE]

Init ==
    /\ fs \in {f \in [Nodes -> {None, Folder} \union Texts] : Tree(f)}
    /\ backups = [s \in Slots |-> None]
    /\ promised = {} /\ collided = {}
    /\ second = 0 /\ step = NoStep /\ ops = 0 /\ faults = 0

Op(op, src, dst, apart) ==
    /\ ops < MaxOps /\ ops' = ops + 1
    /\ step' = [op |-> op, src |-> src, dst |-> dst, apart |-> apart]
Fault == faults < MaxFaults /\ faults' = faults + 1

-----------------------------------------------------------------------------
(* create_backup_path: the second and the file name, whatever the folder.               *)
BackupSlot(n) == <<second, Base[n]>>

BackedUp_late(n, new) == [backups EXCEPT ![BackupSlot(n)] = new]
BackedUp(n, new) == [backups EXCEPT ![BackupSlot(n)] = fs[n]]

(* write_text_file: the folder, the backup, the text; the write may stop half way.        *)
Created(n) == IF Parent[n] = Root THEN fs ELSE [fs EXCEPT ![Parent[n]] = Folder]

Writable(n) == fs[n] # Folder /\ (Parent[n] # Root => fs[Parent[n]] \in {None, Folder})

Write(n, text, create_backup) ==
    /\ Writable(n)
    /\ IF create_backup /\ Exists(n)
       THEN /\ backups' = BackedUp(n, text)
            /\ promised' = promised \union {fs[n]}
            /\ collided' = IF backups[BackupSlot(n)] \in {None, fs[n]} THEN collided \ {fs[n]}
                           ELSE (collided \ {fs[n]}) \union {backups[BackupSlot(n)]}
       ELSE UNCHANGED <<backups, promised, collided>>
    /\ \/ fs' = [Created(n) EXCEPT ![n] = text] /\ UNCHANGED faults
       \/ fs' = [Created(n) EXCEPT ![n] = Torn] /\ Fault
    /\ UNCHANGED second

fs_write_text_file(n, text, create_backup) ==
    /\ Op("write", n, n, TRUE)
    /\ Write(n, text, create_backup)

(* The text is read before the backup of the target may take the place of the restored one. *)
restore_backup(slot, n, create_backup) ==
    /\ backups[slot] # None
    /\ Write(n, backups[slot], create_backup)

fs_restore_backup(slot, n, create_backup) ==
    /\ Op("restore", n, n, TRUE)
    /\ restore_backup(slot, n, create_backup)

create_directory(n) ==
    /\ fs[n] = None /\ Inside(n) # {}
    /\ fs' = [Created(n) EXCEPT ![n] = Folder]

fs_create_directory(n) ==
    /\ Op("mkdir", n, n, TRUE)
    /\ create_directory(n)
    /\ UNCHANGED <<backups, promised, collided, second, faults>>

delete_file(n) ==
    /\ Exists(n) /\ fs[n] # Folder
    /\ fs' = [fs EXCEPT ![n] = None]

fs_delete_file(n) ==
    /\ Op("delete", n, n, TRUE)
    /\ delete_file(n)
    /\ UNCHANGED <<backups, promised, collided, second, faults>>

-----------------------------------------------------------------------------
(* copy_path, move_path. The two paths are apart if neither is or holds the other.          *)
Apart(src, dst) == src \notin Under(dst) /\ dst \notin Under(src)

(* remove_path_if_exists: before anything is copied.                                         *)
Cleared(f, dst) == [n \in Nodes |-> IF n \in Under(dst) THEN None ELSE f[n]]

(* The path below dst that corresponds to one below src.                                      *)
Twin(src, dst, n) == IF n = src THEN dst ELSE CHOOSE m \in Inside(dst) : Base[m] = Base[n]
Fitting(src, dst) == fs[src] = Folder => \A n \in Inside(src) : \E m \in Inside(dst) : Base[m] = Base[n]

Copied(f, src, dst, which) ==
    [n \in Nodes |-> IF \E m \in which : f[m] # None /\ Twin(src, dst, m) = n
                     THEN f[CHOOSE m \in which : f[m] # None /\ Twin(src, dst, m) = n] ELSE f[n]]

(* What is left of src after the destination was cleared is copied (copy_directory_recursive,   *)
(* fs::copy): all of it, or nothing if it was cleared too; a folder copied below itself copies   *)
(* its copy until a path is too long, and the command fails.                                      *)
Copies(f, src, dst) ==
    IF f[src] = None THEN f
    ELSE IF dst \in Under(src) THEN [f EXCEPT ![dst] = Folder]
    ELSE Copied(f, src, dst, Under(src))

(* A call that fails leaves the copy out, incomplete, or with a file written in part.              *)
PartCopies(f, src, dst) ==
    IF f[src] = None \/ dst \in Under(src) THEN {f}
    ELSE {f} \union {Copied(f, src, dst, {src} \union some) : some \in SUBSET Inside(src)}
         \union {[Copied(f, src, dst, {src}) EXCEPT ![Twin(src, dst, n)] = Torn] :
                    n \in {m \in Under(src) : f[m] \in Texts}}

Accepted(src, dst, overwrite) ==
    /\ Exists(src)
    /\ Parent[dst] # Root => fs[Parent[dst]] \in {None, Folder}
    /\ Exists(dst) => overwrite
    /\ Apart(src, dst) => Fitting(src, dst)

Prepared(dst) == Cleared(Created(dst), dst)

copy_path(src, dst, overwrite) ==
    /\ Accepted(src, dst, overwrite)
    /\ \/ fs' = Copies(Prepared(dst), src, dst) /\ UNCHANGED faults
       \/ fs' \in PartCopies(Prepared(dst), src, dst) /\ Fault

fs_copy_path(src, dst, overwrite) ==
    /\ Op("copy", src, dst, Apart(src, dst))
    /\ copy_path(src, dst, overwrite)
    /\ UNCHANGED <<backups, promised, collided, second>>

(* A rename, or a copy and then, if nothing failed, the removal of the source.                      *)
Without(f, gone) == [n \in Nodes |-> IF n \in gone THEN None ELSE f[n]]

Removed_always(src, whole) == Under(src)
Removed(src, whole) == IF whole THEN Under(src) ELSE {}

move_path(src, dst, overwrite) ==
    /\ Accepted(src, dst, overwrite)
    /\ \/ /\ fs' = Without(Copies(Prepared(dst), src, dst), Removed(src, Apart(src, dst)))
          /\ UNCHANGED faults
       \/ /\ Fault                                  \* neither a rename nor the whole copy works
          /\ \E f \in PartCopies(Prepared(dst), src, dst) : fs' = Without(f, Removed(src, FALSE))
       \/ /\ Fault                                  \* the source is removed in part
          /\ Apart(src, dst)
          /\ \E some \in SUBSET Inside(src) :
                fs' = Without(Copies(Prepared(dst), src, dst), some)

fs_move_path(src, dst, overwrite) ==
    /\ Op("move", src, dst, Apart(src, dst))
    /\ move_path(src, dst, overwrite)
    /\ UNCHANGED <<backups, promised, collided, second>>

tick ==
    /\ second < MaxSecond
    /\ second' = second + 1
    /\ UNCHANGED <<fs, backups, promised, collided, step, ops, faults>>

Next ==
    \/ \E n \in Nodes :
        \/ fs_create_directory(n) \/ fs_delete_file(n)
        \/ \E b \in BOOLEAN :
            \/ \E text \in Texts : fs_write_text_file(n, text, b)
            \/ \E slot \in Slots : fs_restore_backup(slot, n, b)
            \/ \E m \in Nodes : fs_copy_path(n, m, b) \/ fs_move_path(n, m, b)
    \/ tick

Spec == Init /\ [][Next]_vars

-----------------------------------------------------------------------------
(* A text that a backup was made of is among the backups from then on, even when the write      *)
(* stops half way, unless a backup of the same name was made in the same second                   *)
(* (write_text_file, create_backup_path).                                                         *)
BackupsKept == \A t \in promised \ collided : \E s \in Slots : backups[s] = t

Stands(f, n, t) == \E m \in Under(n) : f[m] = t

(* Copying or moving loses nothing of its source: whatever fails on the way, each text is still     *)
(* at the source or has arrived at the destination, unless one of the two paths is or holds the      *)
(* other (copy_path, move_path).                                                                     *)
SourceKeptStep ==
    (step'.op \in {"copy", "move"} /\ step'.apart /\ ops' # ops) =>
            \A n \in Under(step'.src) : fs[n] \in Texts
                => Stands(fs', step'.src, fs[n]) \/ Stands(fs', step'.dst, fs[n])
SourceKept == [][SourceKeptStep]_vars
=============================================================================
