----------------------------- MODULE ProjectMerge -----------------------------
(* Project versions on the server (server/cowork-server/src/storage.rs): uploaded versions  *)
(* are applied directly or merged three-way with the current one. Clients work on what they  *)
(* read of the project earlier; a merge is computed before the transaction that checks        *)
(* whether that is still so. Whether the snapshots still stand is the subject of               *)
(* SnapshotStore; here a merge may fail for that at any time.                                   *)
EXTENDS Integers, Sequences, FiniteSets

CONSTANTS Clients, Paths,
          Parts,      \* what one of the two halves of a text file holds, numbers
          Blobs,      \* contents that are not text or too large to merge, numbers
          MaxUploads, MaxVersions, MaxRevision   \* bounds

None == <<>>
Texts == {<<a, b>> : a, b \in Parts}
Contents == Texts \union {<<z>> : z \in Blobs} \union {None}
Files == [Paths -> Contents]

VARIABLES versions,   \* project_versions, by revision: [files, parent, base]
          revision,   \* projects.revision
          current,    \* projects.current_version_id
          client,     \* what a client read and asked for
          applied     \* the last change of the current version: [over, to, result, chosen]

vars == <<versions, revision, current, client, applied>>

Version(files, parent, base) == [files |-> files, parent |-> parent, base |-> base]
Ids == 1..Len(versions)
NoVersion == 0

Idle == [stage |-> "idle", rev |-> 0, cur |-> 0, result |-> 0, chosen |-> {}, output |-> <<>>]

NoChange == [over |-> 0, to |-> 0, result |-> 0, chosen |-> {}]

Init ==
    /\ versions \in {<<Version(f, NoVersion, NoVersion)>> : f \in Files}
    /\ revision = 1 /\ current \in {NoVersion, 1}
    /\ client = [c \in Clients |-> Idle]
    /\ applied = NoChange

-----------------------------------------------------------------------------
(* create_project_version: from a ready snapshot; the parent is a version of the project.      *)
create_project_version(files, parent) ==
    /\ Cardinality({v \in Ids : versions[v].base = NoVersion}) < MaxUploads
    /\ versions' = Append(versions, Version(files, parent, NoVersion))
    /\ UNCHANGED <<revision, current, client, applied>>

(* Any other change of the project's row.                                                        *)
update_project ==
    /\ revision < MaxRevision
    /\ revision' = revision + 1
    /\ UNCHANGED <<versions, current, client, applied>>

(* The version manager of the client: what it read of the project, and the version it would       *)
(* apply: directly if it was made from the current one, else by a merge with its base.             *)
BaseOf(v) == IF versions[v].base # NoVersion THEN versions[v].base ELSE versions[v].parent
MadeFrom(v, cur) == cur \in {NoVersion, versions[v].parent, versions[v].base}

read_project(c, v) ==
    /\ client[c].stage = "idle" /\ v # current
    /\ MadeFrom(v, current) \/ BaseOf(v) # NoVersion
    /\ client' = [client EXCEPT ![c] =
            [Idle EXCEPT !.stage = IF MadeFrom(v, current) THEN "direct" ELSE "review",
                         !.rev = revision, !.cur = current, !.result = v]]
    /\ UNCHANGED <<versions, revision, current, applied>>

Unchanged_any(c) == TRUE
Unchanged(c) == revision = client[c].rev /\ current = client[c].cur

Replaced(c, v) ==
    /\ revision < MaxRevision
    /\ revision' = revision + 1
    /\ current' = v
    /\ applied' = [over |-> current, to |-> v, result |-> client[c].result, chosen |-> client[c].chosen]
    /\ client' = [client EXCEPT ![c] = Idle]

apply_project_version(c) ==
    /\ client[c].stage = "direct"
    /\ \/ Unchanged(c) /\ Replaced(c, client[c].result)
       \/ ~Unchanged(c) /\ client' = [client EXCEPT ![c] = Idle] /\ UNCHANGED <<revision, current, applied>>
    /\ UNCHANGED versions

-----------------------------------------------------------------------------
(* analyze_merge: b, x and r are what a path holds in the base, the current and the result.      *)
(* The texts are merged half by half (diffy, external).                                           *)
Half(b, x, r) == IF x = b THEN r ELSE x
Clash(b, x, r) == x # b /\ r # b /\ x # r
diffy_merge(b, x, r) == <<Half(b[1], x[1], r[1]), Half(b[2], x[2], r[2])>>
diffy_conflicts(b, x, r) == Clash(b[1], x[1], r[1]) \/ Clash(b[2], x[2], r[2])

attempt_text_merge(b, x, r) ==
    IF ~({b, x, r} \subseteq Texts) THEN "binary_conflict"
    ELSE IF diffy_conflicts(b, x, r) THEN "text_conflict" ELSE "auto_merged"

Status(b, x, r) ==
    CASE b = None /\ x = None            -> "added"
      [] b = None /\ r = None            -> "current_only"
      [] b = None /\ x = r               -> "identical_change"
      [] b = None                        -> "binary_conflict"
      [] b = x /\ b = r                  -> "unchanged"
      [] x = None /\ r = None            -> "deleted"
      [] r = None /\ b = x               -> "deleted"
      [] r = None                        -> "binary_conflict"
      [] x = None /\ b = r               -> "current_only"
      [] x = None                        -> "binary_conflict"
      [] b = x                           -> "result_only"
      [] b = r                           -> "current_only"
      [] x = r                           -> "identical_change"
      [] OTHER                           -> attempt_text_merge(b, x, r)

(* annotate_renames: an added path that holds what a path gone from the result held.              *)
Renamed(fb, fr, p) == \E q \in Paths : fb[q] # None /\ fr[q] = None /\ fb[q] = fr[p]

Review(fb, fx, fr) ==
    [p \in {q \in Paths : {fb[q], fx[q], fr[q]} # {None}} |->
        LET s == Status(fb[p], fx[p], fr[p])
        IN  IF s = "added" /\ Renamed(fb, fr, p) THEN "renamed" ELSE s]

Conflicts == {"text_conflict", "binary_conflict"}

default_resolution(s) ==
    CASE s \in {"unchanged", "current_only"} \union Conflicts -> "current"
      [] s = "auto_merged" -> "auto_merged"
      [] OTHER -> "result"

(* What the choice for a path selects.                                                              *)
Selected(choice, b, x, r) ==
    CASE choice = "current" -> x
      [] choice = "result" -> r
      [] choice = "delete" -> None
      [] OTHER -> diffy_merge(b, x, r)

ChoiceOf(chosen, review, p) ==
    IF p \in DOMAIN chosen THEN chosen[p] ELSE default_resolution(review[p])

(* Every conflict needs an explicit choice, and only a path merged without one may be taken so.     *)
Resolved(chosen, review) ==
    \A p \in DOMAIN review :
        /\ review[p] \in Conflicts => p \in DOMAIN chosen
        /\ ChoiceOf(chosen, review, p) = "auto_merged" => review[p] = "auto_merged"

Output(chosen, review, fb, fx, fr) ==
    [p \in Paths |-> IF p \in DOMAIN review
                     THEN Selected(ChoiceOf(chosen, review, p), fb[p], fx[p], fr[p]) ELSE None]

Choices == {"current", "result", "delete", "auto_merged"}

load_version_files(v) == versions[v].files
load_merge_versions(me) == current = me.cur

(* What is done before the transaction: the versions, the analysis and the new manifest.              *)
apply_project_merge(c, chosen) ==
    LET me == client[c]
        fb == load_version_files(BaseOf(me.result))
        fx == load_version_files(me.cur)
        fr == load_version_files(me.result)
        review == Review(fb, fx, fr)
    IN  /\ me.stage = "review"
        /\ load_merge_versions(me)
        /\ DOMAIN chosen \subseteq DOMAIN review
        /\ Resolved(chosen, review)
        /\ client' = [client EXCEPT ![c] = [me EXCEPT !.stage = "merged", !.chosen = DOMAIN chosen,
                                                      !.output = Output(chosen, review, fb, fx, fr)]]
        /\ UNCHANGED <<versions, revision, current, applied>>

(* The transaction: the version and the project's pointer to it, or neither.                           *)
commit_merge(c) ==
    /\ client[c].stage = "merged"
    /\ \/ /\ Unchanged(c)
          /\ Len(versions) < MaxVersions
          /\ versions' = Append(versions, Version(client[c].output, current, BaseOf(client[c].result)))
          /\ Replaced(c, Len(versions'))
       \/ /\ ~Unchanged(c)
          /\ client' = [client EXCEPT ![c] = Idle]
          /\ UNCHANGED <<versions, revision, current, applied>>

(* A request is refused, fails, or the client gives up.                                                 *)
give_up(c) ==
    /\ client[c].stage # "idle"
    /\ client' = [client EXCEPT ![c] = Idle]
    /\ UNCHANGED <<versions, revision, current, applied>>

Resolutions == UNION {[some -> Choices] : some \in SUBSET Paths}

Next ==
    \/ \E files \in Files, parent \in Ids : create_project_version(files, parent)
    \/ update_project
    \/ \E c \in Clients :
        \/ \E v \in Ids : read_project(c, v)
        \/ apply_project_version(c) \/ commit_merge(c) \/ give_up(c)
        \/ \E chosen \in Resolutions : apply_project_merge(c, chosen)

Spec == Init /\ [][Next]_vars

-----------------------------------------------------------------------------
(* The reference: a file, or a half of a text, that one side left as it was in the base is what     *)
(* the other made of it, and one that both changed alike is that.                                    *)
ThreeWay(b, x, r) == CHOOSE y \in {x, r} : \/ x = b /\ y = r
                                           \/ x # b /\ y = x
Agree(b, x, r) == x = b \/ r = b \/ x = r
Merged(b, x, r, y) ==
    IF Agree(b, x, r) THEN y = ThreeWay(b, x, r)
    ELSE /\ {b, x, r} \subseteq Texts
         /\ \A i \in {1, 2} : Agree(b[i], x[i], r[i]) /\ y[i] = ThreeWay(b[i], x[i], r[i])

(* What a project's current version holds follows from the one it replaced. A version that was        *)
(* applied directly was made from that one, and a merge took, in every path for which nobody chose,    *)
(* each change that either side had made to their base, from the version that was current when the      *)
(* merge took its place: no applied change is lost, and no conflict is settled by itself                *)
(* (apply_project_version, apply_project_merge, analyze_merge).                                          *)
NoAppliedChangeLost ==
    LET a == applied
        base == versions[BaseOf(a.result)].files
    IN  a # NoChange =>
            IF a.to = a.result THEN MadeFrom(a.to, a.over)
            ELSE \A p \in Paths \ a.chosen :
                    Merged(base[p], versions[a.over].files[p], versions[a.result].files[p],
                           versions[a.to].files[p])
=============================================================================
