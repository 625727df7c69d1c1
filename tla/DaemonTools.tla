----------------------------- MODULE DaemonTools ----------------------------
(***************************************************************************)
(* The tools a local run may call in the daemon                            *)
(* (agents/cowork-local-daemon/src/main.rs and office.rs): the workspace   *)
(* tools, which work on the user's own project directory while the user    *)
(* works there too, and the state tools, which read and write the daemon's *)
(* entities under the database mutex.                                      *)
(*                                                                         *)
(* A file's content is a sequence of tokens; a tool that looks at a file   *)
(* and then acts on it does so in two steps, and the user may save or      *)
(* remove a file between them.                                             *)
(***************************************************************************)
EXTENDS Integers, Sequences, SequencesExt, FiniteSets, Functions

CONSTANTS Paths,        \* files of the workspace
          Tokens,       \* what files, memories and skill names are made of
          Refs,         \* threads of chat memories; 0 is the agent's scope
          MaxCalls,     \* bound on tool calls
          MaxEdits,     \* bound on what the user and the synchronisation do
          MaxEntities   \* bound on entities

VARIABLES files,    \* the workspace: a function from existing paths
          backups,  \* contents kept under deleted-file-backups
          temp,     \* contents of .cowork-tmp files
          tool,     \* the call in progress
          raced,    \* the user has saved a file since the call looked at it
          entities, \* daemon_entities: a sequence
          calls, edits

vars == <<files, backups, temp, tool, raced, entities, calls, edits>>

Ready == [name |-> "none", pc |-> "idle", path |-> "-", to |-> "-",
          text |-> <<>>, ref |-> 0]

Exists(p) == p \in DOMAIN files
Put(f, p, text) == (p :> text) @@ f

Init ==
  /\ files \in UNION {[D -> {<<t>> : t \in Tokens}] : D \in SUBSET Paths}
  /\ backups = {} /\ temp = {}
  /\ tool = Ready /\ raced = FALSE
  /\ entities = <<>> /\ calls = 0 /\ edits = 0

FilesOnly == UNCHANGED <<entities, edits>>

(* A call of thread r begins. *)
Call(name, p, q, text, r) ==
  /\ tool.pc = "idle" /\ calls < MaxCalls /\ calls' = calls + 1
  /\ tool' = [name |-> name, pc |-> "act", path |-> p, to |-> q,
              text |-> text, ref |-> r]
  /\ raced' = FALSE

Done == tool' = Ready /\ UNCHANGED <<calls, raced>>

-----------------------------------------------------------------------------
(* Workspace tools                                                         *)

(* Write and Append open the file without having read it. *)
write_file(p, t) ==
  /\ Call("Write", p, p, <<t>>, 0)
  /\ UNCHANGED <<files, backups, temp>> /\ FilesOnly

append_file(p, t) ==
  /\ Call("Append", p, p, <<t>>, 0)
  /\ UNCHANGED <<files, backups, temp>> /\ FilesOnly

Occurrences(text, t) == {k \in DOMAIN text : text[k] = t}

(* One edit of Edit and MultiEdit: old must occur, once unless replace_all. *)
EditOk(text, old, all) ==
  /\ Occurrences(text, old) # {}
  /\ all \/ Cardinality(Occurrences(text, old)) = 1

Replaced(text, old, new) == [k \in DOMAIN text |-> IF text[k] = old THEN new ELSE text[k]]

(* Edit computes the new text from what it read; a refused edit writes     *)
(* nothing.                                                                *)
edit_file(p, old, new, all) ==
  /\ Exists(p) /\ EditOk(files[p], old, all)
  /\ Call("Edit", p, p, Replaced(files[p], old, new), 0)
  /\ UNCHANGED <<files, backups, temp>> /\ FilesOnly

(* MultiEdit applies each edit to the text in memory and writes once: one  *)
(* refused edit refuses them all.                                          *)
multi_edit(p, a, b, c) ==
  /\ Exists(p) /\ EditOk(files[p], a, TRUE)
  /\ EditOk(Replaced(files[p], a, b), b, TRUE)
  /\ Call("MultiEdit", p, p, Replaced(Replaced(files[p], a, b), b, c), 0)
  /\ UNCHANGED <<files, backups, temp>> /\ FilesOnly

(* Without the test of the destination. *)
Free_unchecked(q) == TRUE

(* The destination of MovePath and CopyPath must not exist. *)
Free(q) == ~Exists(q)

move_path(p, q) ==
  /\ Exists(p) /\ p # q /\ Free(q)
  /\ Call("MovePath", p, q, <<>>, 0)
  /\ UNCHANGED <<files, backups, temp>> /\ FilesOnly

copy_path(p, q) ==
  /\ Exists(p) /\ p # q /\ Free(q)
  /\ Call("CopyPath", p, q, <<>>, 0)
  /\ UNCHANGED <<files, backups, temp>> /\ FilesOnly

(* Without the copy under deleted-file-backups. *)
Saved_never(p) == backups

Saved(p) == backups \cup {files[p]}

(* DeleteFile copies the file to a backup and then removes it. *)
delete_file(p) ==
  /\ Exists(p) /\ Call("DeleteFile", p, p, <<>>, 0)
  /\ backups' = Saved(p)
  /\ UNCHANGED <<files, temp>> /\ FilesOnly

(* office::replace_text writes the new document beside the target. *)
replace_text(p, q, old, new) ==
  /\ Exists(p) /\ EditOk(files[p], old, TRUE)
  /\ Call("OfficeReplaceText", p, q, Replaced(files[p], old, new), 0)
  /\ temp' = temp \cup {Replaced(files[p], old, new)}
  /\ UNCHANGED <<files, backups>> /\ FilesOnly

(* The second step of the calls above. *)
tool_acts ==
  /\ tool.pc = "act"
  /\ LET p == tool.path  q == tool.to IN
     \/ /\ tool.name \in {"Write", "Edit", "MultiEdit"}
        /\ files' = Put(files, p, tool.text)
        /\ Done /\ UNCHANGED <<backups, temp>>
     \/ /\ tool.name = "Append"
        /\ files' = Put(files, p, IF Exists(p) THEN files[p] \o tool.text ELSE tool.text)
        /\ Done /\ UNCHANGED <<backups, temp>>
     \/ /\ tool.name = "MovePath" /\ Exists(p)
        /\ files' = Put(Restrict(files, DOMAIN files \ {p}), q, files[p])
        /\ Done /\ UNCHANGED <<backups, temp>>
     \/ /\ tool.name = "CopyPath" /\ Exists(p)
        /\ files' = Put(files, q, files[p])
        /\ Done /\ UNCHANGED <<backups, temp>>
     \/ /\ tool.name = "DeleteFile"
        /\ files' = Restrict(files, DOMAIN files \ {p})
        /\ Done /\ UNCHANGED <<backups, temp>>
     \/ /\ tool.name = "OfficeReplaceText"
        /\ files' = Restrict(files, DOMAIN files \ {q})
        /\ tool' = [tool EXCEPT !.pc = "rename"]
        /\ UNCHANGED <<backups, temp, calls, raced>>
  /\ FilesOnly

(* The source of a move or a copy has gone: the call is an error. *)
tool_fails ==
  /\ tool.pc = "act" /\ tool.name \in {"MovePath", "CopyPath"}
  /\ ~Exists(tool.path)
  /\ Done /\ UNCHANGED <<files, backups, temp>> /\ FilesOnly

(* The target of OfficeReplaceText is removed before the rename. *)
rename_temporary ==
  /\ tool.pc = "rename"
  /\ files' = Put(files, tool.to, tool.text)
  /\ temp' = temp \ {tool.text}
  /\ Done /\ UNCHANGED backups /\ FilesOnly

(* Bash runs in the workspace and may leave any file there with any text;  *)
(* a command that exceeds its time has done part of its work.              *)
bash(p) ==
  /\ tool.pc = "idle" /\ calls < MaxCalls /\ calls' = calls + 1
  /\ \E t \in Tokens : files' \in {Put(files, p, <<t>>),
                                   Restrict(files, DOMAIN files \ {p})}
  /\ UNCHANGED <<backups, temp, tool, raced>> /\ FilesOnly

(* The daemon ends in the middle of a call: what was done stays. *)
daemon_ends ==
  /\ tool.pc # "idle" /\ tool' = Ready
  /\ UNCHANGED <<files, backups, temp, raced, calls>> /\ FilesOnly

(* The user saves or removes a file of the project. *)
user_saves(p, t) ==
  /\ edits < MaxEdits /\ edits' = edits + 1
  /\ files' \in {Put(files, p, <<t>>), Restrict(files, DOMAIN files \ {p})}
  /\ raced' = (raced \/ (tool.pc # "idle" /\ p \in {tool.path, tool.to}))
  /\ UNCHANGED <<backups, temp, tool, entities, calls>>

-----------------------------------------------------------------------------
(* State tools: one critical section each.                                 *)

Live(kind) == {i \in DOMAIN entities : entities[i].live /\ entities[i].kind = kind}

Entity(kind, text, ref, by) ==
  [kind |-> kind, text |-> text, ref |-> ref, by |-> by, live |-> TRUE]

StateCall ==
  /\ tool.pc = "idle" /\ calls < MaxCalls /\ calls' = calls + 1
  /\ UNCHANGED <<files, backups, temp, tool, raced, edits>>

(* The rows MemoryWrite may touch: one scope, and one thread of "chat". *)
Candidates(r) == {i \in Live("memory") : entities[i].ref = r}

memory_add(text, r) ==
  /\ StateCall /\ Len(entities) < MaxEntities
  /\ \A i \in Candidates(r) : entities[i].text # text
  /\ entities' = Append(entities, Entity("memory", text, r, "tool"))

(* old_text must identify exactly one memory. *)
Matching(old, r) == {i \in Candidates(r) : entities[i].text = old}

memory_replace(old, new, r) ==
  /\ StateCall /\ Cardinality(Matching(old, r)) = 1
  /\ entities' = [i \in DOMAIN entities |-> IF i \in Matching(old, r)
                    THEN [entities[i] EXCEPT !.text = new] ELSE entities[i]]

memory_remove(old, r) ==
  /\ StateCall /\ Cardinality(Matching(old, r)) = 1
  /\ entities' = [i \in DOMAIN entities |-> IF i \in Matching(old, r)
                    THEN [entities[i] EXCEPT !.live = FALSE] ELSE entities[i]]

(* Without the look-up of the name. *)
SameName_none(name) == {}

SameName(name) == {i \in Live("skill") : entities[i].text = name}

(* SaveSkill updates the one skill of that name, refuses two, and creates  *)
(* one where there is none.                                                *)
save_skill(name) ==
  /\ StateCall /\ SameName(name) = {} /\ Len(entities) < MaxEntities
  /\ entities' = Append(entities, Entity("skill", name, 0, "tool"))

(* TaskCreate, and TaskUpdate of the one task that the identifier names. *)
task_create(text) ==
  /\ StateCall /\ Len(entities) < MaxEntities
  /\ entities' = Append(entities, Entity("task", text, 0, "tool"))

task_update(i, text) ==
  /\ StateCall /\ i \in Live("task")
  /\ entities' = [entities EXCEPT ![i].text = text]

(* The application and the synchronisation write entities of their own.    *)
put_entity(kind, text, r) ==
  /\ edits < MaxEdits /\ edits' = edits + 1 /\ Len(entities) < MaxEntities
  /\ entities' = Append(entities, Entity(kind, text, r, "app"))
  /\ UNCHANGED <<files, backups, temp, tool, raced, calls>>

delete_entity(i) ==
  /\ edits < MaxEdits /\ edits' = edits + 1 /\ entities[i].live
  /\ entities' = [entities EXCEPT ![i].live = FALSE]
  /\ UNCHANGED <<files, backups, temp, tool, raced, calls>>

-----------------------------------------------------------------------------
WorkspaceTool ==
  \/ \E p \in Paths, t \in Tokens : write_file(p, t) \/ append_file(p, t)
  \/ \E p \in Paths, a, b \in Tokens, all \in BOOLEAN : edit_file(p, a, b, all)
  \/ \E p \in Paths, a, b, c \in Tokens : multi_edit(p, a, b, c)
  \/ \E p, q \in Paths : move_path(p, q) \/ copy_path(p, q)
  \/ \E p \in Paths : delete_file(p) \/ bash(p)
  \/ \E p, q \in Paths, a, b \in Tokens : replace_text(p, q, a, b)
  \/ tool_acts \/ tool_fails \/ rename_temporary \/ daemon_ends

StateTool ==
  \/ \E t \in Tokens, r \in Refs : memory_add(t, r) \/ memory_remove(t, r)
  \/ \E a, b \in Tokens, r \in Refs : memory_replace(a, b, r)
  \/ \E t \in Tokens : save_skill(t) \/ task_create(t)
  \/ \E i \in DOMAIN entities, t \in Tokens : task_update(i, t)

Others ==
  \/ \E p \in Paths, t \in Tokens : user_saves(p, t)
  \/ \E k \in {"memory", "skill", "task"}, t \in Tokens, r \in Refs : put_entity(k, t, r)
  \/ \E i \in DOMAIN entities : delete_entity(i)

Next == WorkspaceTool \/ StateTool \/ Others

Spec == Init /\ [][Next]_vars

-----------------------------------------------------------------------------
(* The text is nowhere any more: in no file, backup or temporary file, nor  *)
(* at the head of a file that was appended to.                              *)
Gone(text) ==
  /\ \A p \in DOMAIN files' : ~IsPrefix(text, files'[p])
  /\ text \notin backups' \cup temp'

(* Only a tool that is meant to replace a text may destroy one: a move, a   *)
(* copy, an append or a delete leaves every text of the workspace in a file *)
(* or a backup, unless the user saved that very file while the call ran     *)
(* (MovePath and CopyPath test the destination, DeleteFile copies first).   *)
NoTextDestroyedStep ==
  ((tool_acts \/ rename_temporary)
        /\ tool.name \in {"MovePath", "CopyPath", "DeleteFile", "Append"} /\ ~raced)
       => \A p \in DOMAIN files : ~Gone(files[p])
NoTextDestroyed == [][NoTextDestroyedStep]_vars

(* The tools never make two live skills of one name: only an entity the     *)
(* application or the synchronisation brought in can be the second one.     *)
OneSkillPerName ==
  \A i, j \in Live("skill") :
    (i # j /\ entities[i].text = entities[j].text)
      => "app" \in {entities[i].by, entities[j].by}

=============================================================================
