------------------------------- MODULE SignIn -------------------------------
(***************************************************************************)
(* How an account of the server comes to exist and signs in                *)
(* (server/cowork-server/src/auth.rs, passkey.rs, oidc.rs): bootstrap,     *)
(* invitations, passwords with a second factor, native authorization       *)
(* codes, passkeys and OpenID Connect.  Every transaction is one step, and *)
(* what a handler does after a transaction it has committed is another, so *)
(* requests interleave where the code lets them.  A code, challenge or     *)
(* authorization may be found expired at any time, which the model shows   *)
(* as a request that fails.  An account is named by its email address.     *)
(***************************************************************************)
EXTENDS Naturals, FiniteSets

CONSTANTS Users,       \* email addresses
          Reqs,        \* requests in flight
          Codes,       \* native_authorization_codes
          Keys,        \* authenticators that can become passkeys
          Challenges,  \* webauthn_challenges
          Logins,      \* oidc_authorizations
          Subjects,    \* subjects at the identity provider
          Invites,     \* invitations
          MaxStep,     \* bound on the 30-second TOTP steps
          MaxSecret,   \* bound on the TOTP secrets generated per account
          NoOne

VARIABLES
    account,    \* account[u]: "none" | "member" | "admin"
    password,   \* accounts with a password_hash
    signedIn,   \* accounts that have been given a session
    clock,      \* the current TOTP step
    totp,       \* totp[u]: [st, secret, last], the row of user_totp
    recovery,   \* recovery[u]: [batch, unused], one code standing for a batch
    req,        \* req[r]: what request r does next
    code,       \* code[c]: [st, user]
    passkey,    \* passkey[k]: its owner, or NoOne
    challenge,  \* challenge[h]: [st, kind, user, keys]
    login,      \* login[o]: [st, link, user]
    identity,   \* identity[s]: the account subject s is linked to, or NoOne
    invite,     \* invite[i]: [st, user]
    spent,      \* history: one-time credentials that have admitted somebody
    twice,      \* history: one of them has admitted twice
    provisioned \* history: the first account came from auto-provisioning

vars == <<account, password, signedIn, clock, totp, recovery, req, code, passkey,
          challenge, login, identity, invite, spent, twice, provisioned>>

people  == <<account, password, signedIn>>
factors == <<totp, recovery>>
history == <<spent, twice, provisioned>>

Idle == [op |-> "idle", user |-> NoOne]
NoTotp == [st |-> "none", secret |-> 0, last |-> 0]

Exists(u) == account[u] # "none"
NoUsers == \A u \in Users : ~Exists(u)

Init ==
    /\ account = [u \in Users |-> "none"]
    /\ password = {}
    /\ signedIn = {}
    /\ clock = 1
    /\ totp = [u \in Users |-> NoTotp]
    /\ recovery = [u \in Users |-> [batch |-> 0, unused |-> FALSE]]
    /\ req = [r \in Reqs |-> Idle]
    /\ code = [c \in Codes |-> [st |-> "none", user |-> NoOne]]
    /\ passkey = [k \in Keys |-> NoOne]
    /\ challenge = [h \in Challenges |-> [st |-> "none", kind |-> "none", user |-> NoOne, keys |-> {}]]
    /\ login = [o \in Logins |-> [st |-> "none", link |-> NoOne, user |-> NoOne]]
    /\ identity = [s \in Subjects |-> NoOne]
    /\ invite = [i \in Invites |-> [st |-> "none", user |-> NoOne]]
    /\ spent = {}
    /\ twice = FALSE
    /\ provisioned = FALSE

\* The credentials in cs let somebody in (or prove a second factor).
Spend(cs) ==
    /\ spent' = spent \cup cs
    /\ twice' = (twice \/ cs \cap spent # {})
    /\ UNCHANGED provisioned

\* create_session_tx and issue_access_token.
create_session(u) == signedIn' = signedIn \cup {u}

-----------------------------------------------------------------------------
(* Accounts. *)

\* require_auth lets the bootstrap token through while there is no account.
bootstrap_request(r) ==
    /\ req[r] = Idle /\ NoUsers
    /\ req' = [req EXCEPT ![r] = [op |-> "bootstrap", user |-> NoOne]]
    /\ UNCHANGED <<people, clock, factors, code, passkey, challenge, login, identity, invite, history>>

\* Mutant: the count made by require_auth is trusted.
StillNoUsers_checked == TRUE

\* bootstrap_admin counts the accounts again under an advisory lock.
StillNoUsers == NoUsers

bootstrap_admin(r, u) ==
    /\ req[r].op = "bootstrap"
    /\ req' = [req EXCEPT ![r] = Idle]
    /\ IF StillNoUsers /\ ~Exists(u)
       THEN /\ account' = [account EXCEPT ![u] = "admin"]
            /\ password' = password \cup {u}
            /\ create_session(u)
       ELSE UNCHANGED people
    /\ UNCHANGED <<clock, factors, code, passkey, challenge, login, identity, invite, history>>

create_invitation(i, u) ==
    /\ \E a \in signedIn : account[a] = "admin"
    /\ invite[i].st = "none"
    /\ invite' = [invite EXCEPT ![i] = [st |-> "open", user |-> u]]
    /\ UNCHANGED <<people, clock, factors, req, code, passkey, challenge, login, identity, history>>

\* accept_invitation: the unique email address decides between two invitations.
accept_invitation(i) ==
    LET u == invite[i].user IN
    /\ invite[i].st = "open"
    /\ ~Exists(u)
    /\ invite' = [invite EXCEPT ![i].st = "accepted"]
    /\ account' = [account EXCEPT ![u] = "member"]
    /\ password' = password \cup {u}
    /\ create_session(u)
    /\ Spend({<<"invite", i>>})
    /\ UNCHANGED <<clock, factors, req, code, passkey, challenge, login, identity>>

-----------------------------------------------------------------------------
(* The second factor. *)

Tick ==
    /\ clock < MaxStep
    /\ clock' = clock + 1
    /\ UNCHANGED <<people, factors, req, code, passkey, challenge, login, identity, invite, history>>

setup_totp(u) ==
    /\ u \in signedIn
    /\ totp[u].st # "enabled"
    /\ totp[u].secret < MaxSecret
    /\ totp' = [totp EXCEPT ![u] = [st |-> "pending", secret |-> @.secret + 1, last |-> 0]]
    /\ UNCHANGED <<people, clock, recovery, req, code, passkey, challenge, login, identity, invite, history>>

\* matching_totp_step accepts the step before and after the current one.
Window == {n \in 1..MaxStep : n + 1 >= clock /\ n <= clock + 1}

NewBatch(u) == recovery' = [recovery EXCEPT ![u] = [batch |-> @.batch + 1, unused |-> TRUE]]

enable_totp(u, n) ==
    /\ totp[u].st = "pending"
    /\ n \in Window
    /\ totp' = [totp EXCEPT ![u].st = "enabled", ![u].last = n]
    /\ NewBatch(u)
    /\ Spend({<<"totp", u, totp[u].secret, n>>})
    /\ UNCHANGED <<people, clock, req, code, passkey, challenge, login, identity, invite>>

\* Mutant: the step of the last sign-in is accepted again.
Unused_again(u, n) == n >= totp[u].last

\* A step is newer than the last one used.
Unused(u, n) == n > totp[u].last

\* verify_second_factor in its own transaction: nothing to prove without TOTP,
\* else a step of the window that is newer than the last one, or an unused
\* recovery code.
verify_second_factor(u) ==
    \/ /\ totp[u].st # "enabled"
       /\ UNCHANGED <<factors, history>>
    \/ /\ totp[u].st = "enabled"
       /\ \E n \in Window :
             /\ Unused(u, n)
             /\ totp' = [totp EXCEPT ![u].last = n]
             /\ Spend({<<"totp", u, totp[u].secret, n>>})
       /\ UNCHANGED recovery
    \/ /\ totp[u].st = "enabled"
       /\ recovery[u].unused
       /\ recovery' = [recovery EXCEPT ![u].unused = FALSE]
       /\ Spend({<<"recovery", u, recovery[u].batch>>})
       /\ UNCHANGED totp

\* The handlers that check password and second factor first and do their own
\* work in a later transaction: password_login, native_authorize, disable_totp,
\* passkey::remove; regenerate_recovery_codes checks the second factor only.
Verified(r, u, op) ==
    /\ req[r] = Idle
    /\ Exists(u)
    /\ op # "regenerate" => u \in password
    /\ op \in {"regenerate", "disable", "remove"} => u \in signedIn
    /\ op = "regenerate" => recovery[u].batch < MaxSecret + 1
    /\ verify_second_factor(u)
    /\ req' = [req EXCEPT ![r] = [op |-> op, user |-> u]]
    /\ UNCHANGED <<people, clock, code, passkey, challenge, login, identity, invite>>

password_login(r) ==
    /\ req[r].op = "login"
    /\ create_session(req[r].user)
    /\ req' = [req EXCEPT ![r] = Idle]
    /\ UNCHANGED <<account, password, clock, factors, code, passkey, challenge, login, identity, invite, history>>

regenerate_recovery_codes(r) ==
    /\ req[r].op = "regenerate"
    /\ NewBatch(req[r].user)
    /\ req' = [req EXCEPT ![r] = Idle]
    /\ UNCHANGED <<people, clock, totp, code, passkey, challenge, login, identity, invite, history>>

\* disable_totp removes whatever row there is by then; recovery codes stay.
disable_totp(r) ==
    /\ req[r].op = "disable"
    /\ totp' = [totp EXCEPT ![req[r].user] = [NoTotp EXCEPT !.secret = totp[req[r].user].secret]]
    /\ req' = [req EXCEPT ![r] = Idle]
    /\ UNCHANGED <<people, clock, recovery, code, passkey, challenge, login, identity, invite, history>>

-----------------------------------------------------------------------------
(* Native authorization codes. *)

\* create_native_authorization_code_tx.
NewCode(c, u) ==
    /\ code[c].st = "none"
    /\ code' = [code EXCEPT ![c] = [st |-> "issued", user |-> u]]

native_authorize(r, c) ==
    /\ req[r].op = "native"
    /\ NewCode(c, req[r].user)
    /\ req' = [req EXCEPT ![r] = Idle]
    /\ UNCHANGED <<people, clock, factors, passkey, challenge, login, identity, invite, history>>

\* native_token spends the code first: a wrong verifier or device, or a code
\* that has expired, burns it.
Consumed(c) == code' = [code EXCEPT ![c].st = "consumed"]

native_token(c, valid) ==
    /\ code[c].st = "issued"
    /\ Consumed(c)
    /\ IF valid THEN create_session(code[c].user) /\ Spend({<<"code", c>>})
                ELSE UNCHANGED <<signedIn, history>>
    /\ UNCHANGED <<account, password, clock, factors, req, passkey, challenge, login, identity, invite>>

-----------------------------------------------------------------------------
(* Passkeys. *)

KeysOf(u) == {k \in Keys : passkey[k] = u}

\* start_registration, start_authentication, start_native_authentication.
start_challenge(h, u, kind) ==
    /\ challenge[h].st = "none"
    /\ Exists(u)
    /\ IF kind = "registration" THEN u \in signedIn ELSE KeysOf(u) # {}
    /\ challenge' = [challenge EXCEPT ![h] =
                       [st |-> "open", kind |-> kind, user |-> u, keys |-> KeysOf(u)]]
    /\ UNCHANGED <<people, clock, factors, req, code, passkey, login, identity, invite, history>>

Answer(h, kind) ==
    /\ challenge[h].st = "open" /\ challenge[h].kind = kind
    /\ challenge' = [challenge EXCEPT ![h].st = "used"]

\* A credential already registered is refused and the challenge stays open.
finish_registration(h, k) ==
    /\ Answer(h, "registration")
    /\ k \notin challenge[h].keys /\ passkey[k] = NoOne
    /\ passkey' = [passkey EXCEPT ![k] = challenge[h].user]
    /\ Spend({<<"challenge", h>>})
    /\ UNCHANGED <<people, clock, factors, req, code, login, identity, invite>>

\* update_matching_passkey: the passkey signed the challenge and still exists.
Matching(h, k) == k \in challenge[h].keys /\ passkey[k] = challenge[h].user

finish_authentication(h, k) ==
    /\ Answer(h, "authentication")
    /\ Matching(h, k)
    /\ create_session(challenge[h].user)
    /\ Spend({<<"challenge", h>>})
    /\ UNCHANGED <<account, password, clock, factors, req, code, passkey, login, identity, invite>>

finish_native_authentication(h, k, c) ==
    /\ Answer(h, "native")
    /\ Matching(h, k)
    /\ NewCode(c, challenge[h].user)
    /\ Spend({<<"challenge", h>>})
    /\ UNCHANGED <<people, clock, factors, req, passkey, login, identity, invite>>

remove_passkey(r, k) ==
    /\ req[r].op = "remove"
    /\ passkey[k] = req[r].user
    /\ passkey' = [passkey EXCEPT ![k] = NoOne]
    /\ req' = [req EXCEPT ![r] = Idle]
    /\ UNCHANGED <<people, clock, factors, code, challenge, login, identity, invite, history>>

-----------------------------------------------------------------------------
(* OpenID Connect. *)

start_authorization(o, link) ==
    /\ login[o].st = "none"
    /\ link # NoOne => link \in signedIn
    /\ login' = [login EXCEPT ![o] = [st |-> "open", link |-> link, user |-> NoOne]]
    /\ UNCHANGED <<people, clock, factors, req, code, passkey, challenge, identity, invite, history>>

\* callback spends the state before it asks the provider: when the exchange or
\* the ID token fails the authorization is burnt.
callback(o, exchanged) ==
    /\ login[o].st = "open"
    /\ login' = [login EXCEPT ![o].st = IF exchanged THEN "exchanged" ELSE "burnt"]
    /\ UNCHANGED <<people, clock, factors, req, code, passkey, challenge, identity, invite, history>>

Resolved(o, u) == login' = [login EXCEPT ![o].st = "resolved", ![o].user = u]
Burnt(o) == login' = [login EXCEPT ![o].st = "burnt"]

\* link_identity: the subject must be unlinked or the linking account's own.
link_identity(o, s) ==
    LET u == login[o].link IN
    /\ login[o].st = "exchanged" /\ u # NoOne
    /\ IF identity[s] \in {NoOne, u}
       THEN identity' = [identity EXCEPT ![s] = u] /\ Resolved(o, u)
       ELSE Burnt(o) /\ UNCHANGED identity
    /\ UNCHANGED <<people, clock, factors, req, code, passkey, challenge, invite, history>>

\* resolve_user: a linked subject signs in as its account.
resolve_linked(o, s) ==
    /\ login[o].st = "exchanged" /\ login[o].link = NoOne
    /\ identity[s] # NoOne
    /\ Resolved(o, identity[s])
    /\ UNCHANGED <<people, clock, factors, req, code, passkey, challenge, identity, invite, history>>

\* resolve_user with auto_provision: an unlinked subject with a verified email
\* address is linked to the account of that address, created if need be.
resolve_by_email(o, s, u) ==
    /\ login[o].st = "exchanged" /\ login[o].link = NoOne
    /\ identity[s] = NoOne
    /\ identity' = [identity EXCEPT ![s] = u]
    /\ Resolved(o, u)
    /\ account' = [account EXCEPT ![u] = IF Exists(u) THEN @ ELSE "member"]
    /\ provisioned' = (provisioned \/ NoUsers)
    /\ UNCHANGED <<password, signedIn, clock, factors, req, code, passkey, challenge, invite, spent, twice>>

\* Without auto_provision, or without a verified address, the login is burnt.
resolve_refused(o, s) ==
    /\ login[o].st = "exchanged" /\ login[o].link = NoOne
    /\ identity[s] = NoOne
    /\ Burnt(o)
    /\ UNCHANGED <<people, clock, factors, req, code, passkey, challenge, identity, invite, history>>

callback_code(o, c) ==
    /\ login[o].st = "resolved"
    /\ NewCode(c, login[o].user)
    /\ login' = [login EXCEPT ![o].st = "done"]
    /\ Spend({<<"oidc", o>>})
    /\ UNCHANGED <<people, clock, factors, req, passkey, challenge, identity, invite>>

-----------------------------------------------------------------------------

Next ==
    \/ Tick
    \/ \E r \in Reqs :
          \/ bootstrap_request(r) \/ password_login(r)
          \/ regenerate_recovery_codes(r) \/ disable_totp(r)
          \/ \E u \in Users : bootstrap_admin(r, u)
          \/ \E u \in Users, op \in {"login", "native", "regenerate", "disable", "remove"} :
                Verified(r, u, op)
          \/ \E c \in Codes : native_authorize(r, c)
          \/ \E k \in Keys : remove_passkey(r, k)
    \/ \E u \in Users : setup_totp(u) \/ \E n \in 1..MaxStep : enable_totp(u, n)
    \/ \E i \in Invites : accept_invitation(i) \/ \E u \in Users : create_invitation(i, u)
    \/ \E c \in Codes, valid \in BOOLEAN : native_token(c, valid)
    \/ \E h \in Challenges :
          \/ \E u \in Users, kind \in {"registration", "authentication", "native"} :
                start_challenge(h, u, kind)
          \/ \E k \in Keys :
                \/ finish_registration(h, k) \/ finish_authentication(h, k)
                \/ \E c \in Codes : finish_native_authentication(h, k, c)
    \/ \E o \in Logins :
          \/ \E link \in Users \cup {NoOne} : start_authorization(o, link)
          \/ \E exchanged \in BOOLEAN : callback(o, exchanged)
          \/ \E s \in Subjects :
                \/ link_identity(o, s) \/ resolve_linked(o, s) \/ resolve_refused(o, s)
                \/ \E u \in Users : resolve_by_email(o, s, u)
          \/ \E c \in Codes : callback_code(o, c)

Spec == Init /\ [][Next]_vars

-----------------------------------------------------------------------------
(* Properties. *)

\* Nothing that is good for one use admits twice, however requests interleave
\* and whichever of them fail half way: an invitation, a native code, a passkey
\* challenge, an OpenID Connect state, a TOTP step of a secret, a recovery code.
AdmitsOnce == ~twice

\* The bootstrap race has at most one winner, and from the first account on the
\* server has an administrator, unless auto-provisioning created that account
\* before anybody bootstrapped: then the bootstrap token is already dead and
\* no operation of the server ever makes an administrator.
OneAdministrator ==
    LET admins == {u \in Users : account[u] = "admin"} IN
    /\ Cardinality(admins) <= 1
    /\ NoUsers \/ admins # {} \/ provisioned
=============================================================================
