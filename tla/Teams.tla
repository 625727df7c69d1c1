------------------------------- MODULE Teams --------------------------------
(***************************************************************************)
(* A team and its shared model profiles                                    *)
(* (server/cowork-server/src/organization.rs, providers.rs and the         *)
(* publications of sync.rs).  Every member has a feed entity for every     *)
(* profile of the team.  The handlers check the caller before they open    *)
(* their transaction, and transactions run at READ COMMITTED: one that     *)
(* changes the members reads the profiles, one that changes a profile      *)
(* reads the members, and neither sees what the other has not committed.   *)
(***************************************************************************)
EXTENDS Naturals, FiniteSets

CONSTANTS Users, Owner, Profiles, Requests,
          MaxRev,     \* bound on the revisions of a profile
          MaxEdits    \* bound on the requests of a behaviour

VARIABLES
    role,     \* role[u]: "none" | "member" | "admin" | "owner", rows of team_members
    profile,  \* profile[p]: [live, rev], a row of provider_profiles of the team
    feed,     \* feed[u][p]: [live, rev], the row of sync_entities
    req,      \* req[q]: the request in flight
    edits,    \* requests so far
    raced     \* history: <<u, p>> written by overlapping transactions

vars == <<role, profile, feed, req, edits, raced>>

None == [live |-> FALSE, rev |-> 0]
Idle == [st |-> "idle", op |-> "none", user |-> Owner, role |-> "none",
         prof |-> CHOOSE p \in Profiles : TRUE, rev |-> 0, seen |-> {}]

MemberOps == {"set", "remove"}
ProfileOps == {"create", "update", "delete"}

\* create_team inserts the team and its owner in one transaction.
Init ==
    /\ role = [u \in Users |-> IF u = Owner THEN "owner" ELSE "none"]
    /\ profile = [p \in Profiles |-> None]
    /\ feed = [u \in Users |-> [p \in Profiles |-> None]]
    /\ req = [q \in Requests |-> Idle]
    /\ edits = 0
    /\ raced = {}

Admin(u) == role[u] \in {"owner", "admin"}
Members == {u \in Users : role[u] # "none"}
Open(ops) == {q \in Requests : req[q].st = "open" /\ req[q].op \in ops}

\* ensure_team_admin for set_team_member and remove_team_member.
check_member(q, caller, op, u, r) ==
    /\ req[q] = Idle /\ edits < MaxEdits
    /\ Admin(caller)
    /\ req' = [req EXCEPT ![q] = [Idle EXCEPT !.st = "checked", !.op = op, !.user = u, !.role = r]]
    /\ edits' = edits + 1
    /\ UNCHANGED <<role, profile, feed, raced>>

\* ensure_profile_admin, with the revision the client has seen.
check_profile(q, caller, op, p) ==
    /\ req[q] = Idle /\ edits < MaxEdits
    /\ Admin(caller)
    /\ IF op = "create" THEN profile[p].rev = 0 ELSE profile[p].live
    /\ req' = [req EXCEPT ![q] = [Idle EXCEPT !.st = "checked", !.op = op, !.prof = p, !.rev = profile[p].rev]]
    /\ edits' = edits + 1
    /\ UNCHANGED <<role, profile, feed, raced>>

Refused(q) == req' = [req EXCEPT ![q] = Idle] /\ UNCHANGED raced

\* Entities that this transaction and an open one of the other kind publish.
Overlap(us, ps) ==
    (us \X {req[q].prof : q \in Open(ProfileOps)}) \cup ({req[q].user : q \in Open(MemberOps)} \X ps)

\* The member's row is locked, written and the team's profiles are read; the
\* owner's row is refused, and so is the removal of somebody who is not there.
open_member(q) ==
    LET u == req[q].user IN
    /\ req[q].st = "checked" /\ req[q].op \in MemberOps
    /\ \A o \in Open(MemberOps) : req[o].user # u
    /\ IF role[u] = "owner" \/ (req[q].op = "remove" /\ role[u] = "none")
       THEN Refused(q)
       ELSE /\ req' = [req EXCEPT ![q].st = "open",
                                  ![q].seen = {<<p, profile[p].rev>> : p \in {x \in Profiles : profile[x].live}}]
            /\ raced' = raced \cup Overlap({u}, {})
    /\ UNCHANGED <<role, profile, feed, edits>>

\* Mutant: the removed member's feed is left as it is.
Republished_kept(q, f, p) ==
    IF \E r \in 1..MaxRev : <<p, r>> \in req[q].seen
    THEN [live |-> TRUE, rev |-> CHOOSE r \in 1..MaxRev : <<p, r>> \in req[q].seen]
    ELSE f

\* publish_team_provider_profiles_for_user_tx, and the tombstones of
\* publish_team_provider_profile_tombstones_for_user_tx.
Republished(q, f, p) ==
    IF \E r \in 1..MaxRev : <<p, r>> \in req[q].seen
    THEN [live |-> req[q].op = "set", rev |-> CHOOSE r \in 1..MaxRev : <<p, r>> \in req[q].seen]
    ELSE f

commit_member(q) ==
    LET u == req[q].user IN
    /\ req[q].st = "open" /\ req[q].op \in MemberOps
    /\ role' = [role EXCEPT ![u] = IF req[q].op = "set" THEN req[q].role ELSE "none"]
    /\ feed' = [feed EXCEPT ![u] = [p \in Profiles |-> Republished(q, feed[u][p], p)]]
    /\ raced' = raced \cup Overlap({u}, {})
    /\ req' = [req EXCEPT ![q] = Idle]
    /\ UNCHANGED <<profile, edits>>

\* The profile's row is written WHERE revision = expected and the members are read.
open_profile(q) ==
    LET p == req[q].prof IN
    /\ req[q].st = "checked" /\ req[q].op \in ProfileOps
    /\ \A o \in Open(ProfileOps) : req[o].prof # p
    /\ IF profile[p].rev # req[q].rev \/ profile[p].rev >= MaxRev
       THEN Refused(q)
       ELSE /\ req' = [req EXCEPT ![q].st = "open", ![q].seen = Members]
            /\ raced' = raced \cup Overlap({}, {p})
    /\ UNCHANGED <<role, profile, feed, edits>>

\* The row that create, update, set_secret or delete leaves.
NewRow(q) == [live |-> req[q].op # "delete", rev |-> profile[req[q].prof].rev + 1]

\* publish_canonical_provider_profile_tx and publish_provider_profile_tombstones_tx.
commit_profile(q) ==
    LET p == req[q].prof IN
    /\ req[q].st = "open" /\ req[q].op \in ProfileOps
    /\ profile' = [profile EXCEPT ![p] = NewRow(q)]
    /\ feed' = [u \in Users |-> IF u \in req[q].seen THEN [feed[u] EXCEPT ![p] = NewRow(q)] ELSE feed[u]]
    /\ raced' = raced \cup Overlap({}, {p})
    /\ req' = [req EXCEPT ![q] = Idle]
    /\ UNCHANGED <<role, edits>>

Next ==
    \E q \in Requests :
        \/ \E c, u \in Users :
              \/ \E r \in {"member", "admin"} : check_member(q, c, "set", u, r)
              \/ check_member(q, c, "remove", u, "none")
        \/ \E c \in Users, op \in ProfileOps, p \in Profiles : check_profile(q, c, op, p)
        \/ open_member(q) \/ commit_member(q) \/ open_profile(q) \/ commit_profile(q)

Spec == Init /\ [][Next]_vars

-----------------------------------------------------------------------------
(* Properties. *)

\* Every member's devices see exactly the profiles of the team at their newest
\* revision, and nobody else does: except for a member and a profile that were
\* changed by overlapping transactions, which do not see each other's rows.
TeamFeedsAgree ==
    \A u \in Users, p \in Profiles : <<u, p>> \notin raced =>
        /\ feed[u][p].live <=> (profile[p].live /\ role[u] # "none")
        /\ feed[u][p].live => feed[u][p].rev = profile[p].rev
=============================================================================
