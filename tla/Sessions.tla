------------------------------ MODULE Sessions ------------------------------
(***************************************************************************)
(* The signed-in sessions of one account (server/cowork-server/src/auth.rs *)
(* and the retention job in db.rs): refresh tokens rotate, a token         *)
(* presented again after its rotation revokes its family, sessions are     *)
(* logged out, revoked from another device, expire and are purged.  A      *)
(* session's refresh tokens are numbered by their rotation; the holders of *)
(* a token are the browser tabs or processes that share it, and any answer *)
(* may be lost on its way.  Push subscriptions go with the sessions.       *)
(***************************************************************************)
EXTENDS Naturals, FiniteSets

CONSTANTS SessionIds, Devices, Holders, MaxGen, NoToken

VARIABLES
    session,   \* session[s]: [st, device, gen], a row of auth_sessions
    access,    \* sessions with an access token that is neither revoked nor expired
    held,      \* held[h]: the refresh token <<s, gen>> that h would present, or NoToken
    revoking,  \* open revoke_session transactions: <<s, the subscription stays>>
    subs,      \* devices with an active row in push_subscriptions
    accepted,  \* history: the refresh tokens that have been rotated
    replayed,  \* history: sessions one of whose rotated tokens came back
    crossed,   \* history: devices signed in to while a revocation on them was open
    lingers    \* history: devices whose last session ended without revoke_session

vars == <<session, access, held, revoking, subs, accepted, replayed, crossed, lingers>>

NoSession == [st |-> "none", device |-> CHOOSE d \in Devices : TRUE, gen |-> 0]

Init ==
    /\ session = [s \in SessionIds |-> NoSession]
    /\ access = {}
    /\ held = [h \in Holders |-> NoToken]
    /\ revoking = {}
    /\ subs = {}
    /\ accepted = {}
    /\ replayed = {}
    /\ crossed = {}
    /\ lingers = {}

Live(s) == session[s].st = "active"
Unlocked(s) == \A v \in revoking : v[1] # s
LiveOn(d) == {s \in SessionIds : Live(s) /\ session[s].device = d}

\* create_session_tx at the end of any sign-in; every holder that is to share
\* the session (a second tab, a restored profile) has the first token.
create_session(s, d, hs) ==
    /\ session[s].st = "none"
    /\ session' = [session EXCEPT ![s] = [st |-> "active", device |-> d, gen |-> 1]]
    /\ access' = access \cup {s}
    /\ held' = [h \in Holders |-> IF h \in hs THEN <<s, 1>> ELSE held[h]]
    /\ lingers' = lingers \ {d}
    /\ crossed' = IF \E v \in revoking : session[v[1]].device = d THEN crossed \cup {d} ELSE crossed
    /\ UNCHANGED <<revoking, subs, accepted, replayed>>

\* rotate_refresh_session with the current token: the old hash goes into the
\* history, and the answer with the new token reaches the holder or is lost.
rotate(h, delivered) ==
    LET s == held[h][1]  g == held[h][2] IN
    /\ held[h] # NoToken
    /\ Live(s) /\ session[s].gen = g /\ g < MaxGen
    /\ Unlocked(s)
    /\ session' = [session EXCEPT ![s].gen = g + 1]
    /\ access' = access \cup {s}
    /\ accepted' = accepted \cup {<<s, g>>}
    /\ held' = IF delivered THEN [held EXCEPT ![h] = <<s, g + 1>>] ELSE held
    /\ UNCHANGED <<revoking, crossed, subs, replayed, lingers>>

\* Sessions that end here leave the push subscription of their device alone.
LeavesPush(s) ==
    lingers' = IF LiveOn(session[s].device) = {s} THEN lingers \cup {session[s].device} ELSE lingers


\* The token is in auth_refresh_token_history: the family is revoked.
InHistory(s, g) == session[s].st # "none" /\ session[s].st # "purged" /\ g < session[s].gen

Noted(s, g) == replayed' = IF <<s, g>> \in accepted THEN replayed \cup {s} ELSE replayed

replay(h) ==
    LET s == held[h][1]  g == held[h][2] IN
    /\ held[h] # NoToken
    /\ ~(Live(s) /\ session[s].gen = g)
    /\ InHistory(s, g) /\ Unlocked(s)
    /\ session' = IF Live(s) THEN [session EXCEPT ![s].st = "revoked"] ELSE session
    /\ IF Live(s) THEN LeavesPush(s) ELSE UNCHANGED lingers
    /\ Noted(s, g)
    /\ held' = [held EXCEPT ![h] = NoToken]
    /\ UNCHANGED <<revoking, crossed, access, subs, accepted>>

\* Neither the current token nor one of the history: refused, nothing else.
reject(h) ==
    LET s == held[h][1]  g == held[h][2] IN
    /\ held[h] # NoToken
    /\ ~(Live(s) /\ session[s].gen = g) /\ ~InHistory(s, g)
    /\ Noted(s, g)
    /\ held' = [held EXCEPT ![h] = NoToken]
    /\ UNCHANGED <<session, lingers, revoking, crossed, access, subs, accepted>>

\* require_auth: the access token and the session behind it.
Authorized(s) == s \in access /\ Live(s)

logout(s) ==
    /\ Authorized(s) /\ Unlocked(s)
    /\ session' = [session EXCEPT ![s].st = "revoked"]
    /\ access' = access \ {s}
    /\ LeavesPush(s)
    /\ UNCHANGED <<revoking, crossed, held, subs, accepted, replayed>>

\* Mutant: the device's other sessions are not looked at.
StillOn_never(s) == s \notin SessionIds

\* The device keeps its subscription while another session of it is active.
StillOn(s) == LiveOn(session[s].device) \ {s} # {}

\* revoke_session, called from session c of the same account, locks the row of
\* s; the DELETE on the device's subscription sees committed rows only.
revoke_session(c, s) ==
    /\ Authorized(c)
    /\ Live(s) /\ Unlocked(s)
    /\ revoking' = revoking \cup {<<s, StillOn(s) \/ session[s].device \notin subs>>}
    /\ UNCHANGED <<crossed, session, access, held, subs, accepted, replayed, lingers>>

revoke_commit(v) ==
    LET s == v[1]  d == session[s].device IN
    /\ v \in revoking
    /\ revoking' = revoking \ {v}
    /\ session' = [session EXCEPT ![s].st = "revoked"]
    /\ access' = access \ {s}
    /\ subs' = IF v[2] THEN subs ELSE subs \ {d}
    /\ lingers' = IF v[2] /\ LiveOn(d) \ {s} = {} THEN lingers \cup {d} ELSE lingers
    /\ UNCHANGED <<crossed, held, accepted, replayed>>

\* Thirty days pass (session) or fifteen minutes (access token).
expire_session(s) ==
    /\ Live(s)
    /\ session' = [session EXCEPT ![s].st = "expired"]
    /\ access' = access \ {s}
    /\ LeavesPush(s)
    /\ UNCHANGED <<revoking, crossed, held, subs, accepted, replayed>>

expire_access(s) ==
    /\ s \in access
    /\ access' = access \ {s}
    /\ UNCHANGED <<revoking, crossed, session, held, subs, accepted, replayed, lingers>>

\* enforce_auth_session_retention, 90 days later.
purge_session(s) ==
    /\ session[s].st \in {"revoked", "expired"} /\ Unlocked(s)
    /\ session' = [session EXCEPT ![s].st = "purged"]
    /\ access' = access \ {s}
    /\ subs' = IF LiveOn(session[s].device) = {} THEN subs \ {session[s].device} ELSE subs
    /\ UNCHANGED <<revoking, crossed, held, accepted, replayed, lingers>>

\* push::register for the caller's own device, and push::remove.
register_push(s) ==
    /\ Authorized(s)
    /\ subs' = subs \cup {session[s].device}
    /\ UNCHANGED <<revoking, crossed, session, access, held, accepted, replayed, lingers>>

remove_push(s, d) ==
    /\ Authorized(s)
    /\ d \in subs
    /\ subs' = subs \ {d}
    /\ UNCHANGED <<revoking, crossed, session, access, held, accepted, replayed, lingers>>

Next ==
    \/ \E s \in SessionIds :
          \/ \E d \in Devices, hs \in SUBSET Holders : create_session(s, d, hs)
          \/ \E c \in SessionIds : revoke_session(c, s)
          \/ \E v \in revoking : revoke_commit(v)
          \/ logout(s) \/ expire_session(s) \/ expire_access(s) \/ purge_session(s)
          \/ register_push(s) \/ \E d \in Devices : remove_push(s, d)
    \/ \E h \in Holders : replay(h) \/ reject(h) \/ \E delivered \in BOOLEAN : rotate(h, delivered)

Spec == Init /\ [][Next]_vars

-----------------------------------------------------------------------------
(* Properties. *)

\* Once a rotated refresh token has come back, whoever presented it and however
\* many rotations later, nobody is served from that session any more: neither
\* its newest refresh token nor an access token issued before.
ReplayEndsFamily == \A s \in replayed : ~Live(s) /\ ~Authorized(s)

\* A device receives push messages only while it is signed in, unless its last
\* session was logged out, revoked for a replay or expired, or its last two
\* sessions were revoked by overlapping transactions: those leave the
\* subscription until the retention job finds the session.
PushWhileSignedIn == \A d \in subs : LiveOn(d) # {} \/ d \in lingers

\* Ending one session of a device does not silence the device's other sessions:
\* a subscription goes only when the device has no session left, when its user
\* removes it, or when a sign-in crossed the revocation.
PushKeptStep ==
    \A d \in (subs \ subs') \ crossed' :
          (\E s \in SessionIds : session[s].st # session'[s].st) =>
              \A s \in SessionIds : session'[s].device = d => session'[s].st # "active"
PushKept == [][PushKeptStep]_vars
=============================================================================
