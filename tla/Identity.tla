------------------------------ MODULE Identity ------------------------------
(***************************************************************************)
(* src/common/identity.py as src/api/auth_router.py and src/api/deps.py    *)
(* serve it: sign-up, password login, second factor, recovery codes, web   *)
(* sessions and SSO, on several workers over one SQLite file.              *)
(*                                                                         *)
(* A request reads the rows it needs, and its first INSERT or UPDATE takes *)
(* the write lock until session_scope commits or rolls back.  An exception *)
(* that leaves the block rolls back, whatever was flushed before it.       *)
(***************************************************************************)
EXTENDS Naturals, Sequences, SequencesExt, Rbac

CONSTANTS
    Worker,       \* worker processes, one request each at a time
    User,         \* e-mail addresses
    NoWorker,     \* nobody holds the write lock
    SeedRole,     \* roles of the members seed_users created
    MaxFailed,    \* _MAX_FAILED
    CodesPerSet,  \* recovery codes confirm_mfa issues (10 in the code)
    MaxSets,      \* bound: sets of recovery codes per user
    MaxSecrets,   \* bound: MFA enrolments per user
    MaxSessions,  \* bound: rows of web_sessions
    MaxRequests   \* bound: requests begun

ASSUME NoWorkerAssumption == NoWorker \notin Worker
ASSUME SeedAssumption == SeedRole \subseteq Role
ASSUME BoundAssumption ==
    /\ MaxFailed \in Nat \ {0}
    /\ {CodesPerSet, MaxSets, MaxSecrets, MaxSessions, MaxRequests} \subseteq Nat

VARIABLES
    user,      \* rows of users, with the role of their membership
    session,   \* rows of web_sessions, in the order of their creation
    token,     \* users with an access token that has not expired
    lock,      \* holder of SQLite's write lock
    req,       \* the request each worker is serving
    begun,     \* requests begun so far
    accepted,  \* recovery codes that completed a login, per user
    overlap,   \* users for whom two requests about recovery codes overlapped
    refused    \* wrong passwords answered in a row since a right one, per user

idVars == <<user, session, token, lock, req, begun, accepted, overlap, refused>>

-----------------------------------------------------------------------------
\* a code of the n-th set: codes of different sets differ
Code == (1..MaxSets) \X (1..CodesPerSet)
CodeSet(n) == {n} \X (1..CodesPerSet)

\* A row of users: secret 0 is no mfa_secret, sets counts the sets of recovery
\* codes issued, linked a row of oidc_identities.
NewUser(password, linked) ==
    [exists |-> TRUE, password |-> password, role |-> "owner", failed |-> 0,
     locked |-> FALSE, secret |-> 0, mfa |-> FALSE, sets |-> 0, codes |-> {},
     linked |-> linked]
NoUser == [NewUser(FALSE, FALSE) EXCEPT !.exists = FALSE]

\* seed_users: members of any role, some with the second factor enabled
Seeded(role, mfa) ==
    [NewUser(TRUE, FALSE) EXCEPT
        !.role = role, !.mfa = mfa, !.secret = IF mfa THEN 1 ELSE 0,
        !.sets = IF mfa THEN 1 ELSE 0,
        !.codes = IF mfa THEN CodeSet(1) ELSE {}]

Idle == [pc |-> "idle"]
Busy == [pc |-> "busy"]   \* a route of another module

IdInit ==
    /\ user \in [User -> {NoUser} \cup
                    {Seeded(r, mfa) : r \in SeedRole, mfa \in BOOLEAN}]
    /\ session = <<>>
    /\ token = {}
    /\ lock = NoWorker
    /\ req = [w \in Worker |-> Idle]
    /\ begun = 0
    /\ accepted = [u \in User |-> <<>>]
    /\ overlap = {}
    /\ refused = [u \in User |-> 0]

-----------------------------------------------------------------------------
Free(w) == req[w] = Idle
Doing(w, kind) == req[w].pc = "flushed" /\ req[w].op.kind = kind

AboutCodes(w, u) == /\ req[w].pc \in {"read", "flushed"}
                    /\ req[w].op.kind \in {"recover", "confirm"}
                    /\ req[w].op.user = u

\* the handler has read what it needs; op is what it will write
Reads_(w, op) ==
    /\ req' = [req EXCEPT ![w] = [pc |-> "read", op |-> op]]
    /\ overlap' = overlap \cup
        {u \in User : /\ op.kind \in {"recover", "confirm"}
                      /\ op.user = u
                      /\ \E v \in Worker \ {w} : AboutCodes(v, u)}
    /\ UNCHANGED <<user, session, token, lock, accepted, refused>>
Begin(w, op) ==
    /\ Free(w)
    /\ begun < MaxRequests
    /\ begun' = begun + 1
    /\ Reads_(w, op)

\* the first INSERT or UPDATE
Flush(w) ==
    /\ req[w].pc = "read"
    /\ lock = NoWorker
    /\ lock' = w
    /\ req' = [req EXCEPT ![w].pc = "flushed"]
    /\ UNCHANGED <<user, session, token, begun, accepted, overlap, refused>>

\* session_scope commits, releases the lock, and the worker goes on as next
Commits(w, next) ==
    /\ lock' = NoWorker
    /\ req' = [req EXCEPT ![w] = next]
    /\ UNCHANGED <<begun, overlap>>

\* an exception leaves the block: nothing of the request remains
RollsBack(w) ==
    /\ lock' = IF lock = w THEN NoWorker ELSE lock
    /\ req' = [req EXCEPT ![w] = Idle]
    /\ UNCHANGED <<user, session, token, begun, accepted, overlap>>

\* the busy timeout while waiting for the lock, an exception, a restart
Rollback(w) ==
    /\ req[w].pc \in {"read", "flushed"}
    /\ RollsBack(w)
    /\ UNCHANGED refused

\* create_web_session and _tokens_for: both credentials of a login
OpensSession(u, role) ==
    /\ Len(session) < MaxSessions
    /\ session' = Append(session, [user |-> u, role |-> role, revoked |-> FALSE])
    /\ token' = token \cup {u}

-----------------------------------------------------------------------------
\* POST /auth/signup: create_account inserts first, so create_user tests the
\* e-mail under the lock; the test is repeated in SignupCommit's guard.
SignupBegin(w, u) == Begin(w, [kind |-> "signup", user |-> u])

SignupCommit(w) ==
    LET u == req[w].op.user
    IN /\ Doing(w, "signup")
       /\ ~user[u].exists
       /\ user' = [user EXCEPT ![u] = NewUser(TRUE, FALSE)]
       /\ OpensSession(u, "owner")
       /\ Commits(w, Idle)
       /\ UNCHANGED <<accepted, refused>>

\* POST /auth/login: authenticate_password with the rows as they are now
LoginRead(w, u, good) ==
    /\ user[u].exists
    /\ ~user[u].locked
    /\ good => user[u].password /\ ~user[u].mfa
    /\ Begin(w, [kind |-> IF good THEN "login" ELSE "fail", user |-> u])

\* the password of a user with MFA: the counter is reset, and MfaRequired is
\* answered from inside the block, which commits
Challenge(w, u) ==
    /\ Free(w)
    /\ begun < MaxRequests
    /\ user[u].exists /\ user[u].password /\ user[u].mfa /\ ~user[u].locked
    /\ user[u].failed = 0 \/ lock = NoWorker
    /\ begun' = begun + 1
    /\ user' = [user EXCEPT ![u].failed = 0]
    /\ refused' = [refused EXCEPT ![u] = 0]
    /\ UNCHANGED <<session, token, lock, req, accepted, overlap>>

\* HTTPException(401) leaves the block: the counter that was flushed, and a
\* lock it may have set, are rolled back
RefuseLogin(w) ==
    /\ Doing(w, "fail")
    /\ RollsBack(w)
    /\ refused' = [refused EXCEPT ![req[w].op.user] = @ + 1]

LoginCommit(w) ==
    LET u == req[w].op.user
    IN /\ Doing(w, "login")
       /\ user' = [user EXCEPT ![u].failed = 0, ![u].locked = FALSE]
       /\ OpensSession(u, user[u].role)
       /\ Commits(w, Idle)
       /\ refused' = [refused EXCEPT ![u] = 0]
       /\ UNCHANGED accepted

\* POST /auth/mfa/verify, complete_mfa with a TOTP of the stored secret; it
\* asks neither for a lock nor for mfa_enabled
VerifyTotp(w, u) ==
    /\ user[u].exists
    /\ user[u].secret # 0
    /\ Begin(w, [kind |-> "totp", user |-> u])

TotpCommit(w) ==
    LET u == req[w].op.user
    IN /\ Doing(w, "totp")
       /\ OpensSession(u, user[u].role)
       /\ Commits(w, Idle)
       /\ UNCHANGED <<user, accepted, refused>>

\* mutant: the code that was used stays in the list
VerifyRecovery_Keeps(w, u, c) ==
    /\ user[u].exists
    /\ c \in user[u].codes
    /\ Begin(w, [kind |-> "recover", user |-> u, code |-> c,
                 left |-> user[u].codes])
\* ... or with a recovery code; the list to store is computed here
VerifyRecovery(w, u, c) ==
    /\ user[u].exists
    /\ c \in user[u].codes
    /\ Begin(w, [kind |-> "recover", user |-> u, code |-> c,
                 left |-> user[u].codes \ {c}])

RecoverCommit(w) ==
    LET op == req[w].op
    IN /\ Doing(w, "recover")
       /\ user' = [user EXCEPT ![op.user].codes = op.left]
       /\ accepted' = [accepted EXCEPT ![op.user] = Append(@, op.code)]
       /\ OpensSession(op.user, user[op.user].role)
       /\ Commits(w, Idle)
       /\ UNCHANGED refused

-----------------------------------------------------------------------------
\* current_user by the cookie: load_web_session, which stores last_seen_at in a
\* transaction of its own before the route runs
CookieRead(w, i) ==
    /\ i \in DOMAIN session
    /\ ~session[i].revoked
    /\ Begin(w, [kind |-> "seen", session |-> i])

\* mutant: the row is written back as it was loaded, all columns of it
CookieCommit_WholeRow(w) ==
    LET i == req[w].op.session
    IN /\ Doing(w, "seen")
       /\ session' = [session EXCEPT ![i].revoked = FALSE]
       /\ Commits(w, [pc |-> "authed", user |-> session[i].user,
                      role |-> session[i].role])
       /\ UNCHANGED <<user, token, accepted, refused>>
\* only last_seen_at is written; the role is the one of the login
CookieCommit(w) ==
    LET i == req[w].op.session
    IN /\ Doing(w, "seen")
       /\ Commits(w, [pc |-> "authed", user |-> session[i].user,
                      role |-> session[i].role])
       /\ UNCHANGED <<user, session, token, accepted, refused>>

\* current_user by an access token: no table is read, the claims are trusted
\* for _ACCESS_TTL
Bearer(w, u) ==
    /\ Free(w)
    /\ begun < MaxRequests
    /\ u \in token
    /\ begun' = begun + 1
    /\ req' = [req EXCEPT ![w] = [pc |-> "authed", user |-> u,
                                  role |-> user[u].role]]
    /\ UNCHANGED <<user, session, token, lock, accepted, overlap, refused>>

ExpireToken(u) ==
    /\ u \in token
    /\ token' = token \ {u}
    /\ UNCHANGED <<user, session, lock, req, begun, accepted, overlap, refused>>

\* POST /auth/logout: the cookie names the session; the token stays valid
LogoutRead(w, i) ==
    /\ i \in DOMAIN session
    /\ ~session[i].revoked
    /\ Begin(w, [kind |-> "logout", session |-> i])

LogoutCommit(w) ==
    /\ Doing(w, "logout")
    /\ session' = [session EXCEPT ![req[w].op.session].revoked = TRUE]
    /\ Commits(w, Idle)
    /\ UNCHANGED <<user, token, accepted, refused>>

-----------------------------------------------------------------------------
\* the handler of a resolved caller
Handle(w, op) ==
    /\ req[w].pc = "authed"
    /\ op.user = req[w].user
    /\ Reads_(w, op)
    /\ UNCHANGED begun

\* POST /auth/mfa/enroll: a new secret replaces the old one, also that of a
\* user whose second factor is enabled
EnrolRead(w) == Handle(w, [kind |-> "enrol", user |-> req[w].user])

EnrolCommit(w) ==
    LET u == req[w].op.user
    IN /\ Doing(w, "enrol")
       /\ user[u].secret < MaxSecrets
       /\ user' = [user EXCEPT ![u].secret = @ + 1]
       /\ Commits(w, Idle)
       /\ UNCHANGED <<session, token, accepted, refused>>

\* POST /auth/mfa/confirm with a TOTP of the secret read
ConfirmRead(w) ==
    /\ req[w].pc = "authed"
    /\ user[req[w].user].secret # 0
    /\ Handle(w, [kind |-> "confirm", user |-> req[w].user])

\* a fresh set of codes replaces the list
ConfirmCommit(w) ==
    LET u == req[w].op.user
    IN /\ Doing(w, "confirm")
       /\ user[u].sets < MaxSets
       /\ user' = [user EXCEPT ![u].mfa = TRUE, ![u].sets = @ + 1,
                               ![u].codes = CodeSet(user[u].sets + 1)]
       /\ Commits(w, Idle)
       /\ UNCHANGED <<session, token, accepted, refused>>

\* GET /auth/oidc/callback: upsert_oidc_user finds the link, else the e-mail
OidcRead(w, u) ==
    Begin(w, [kind |-> "oidc", user |-> u, found |-> user[u].exists,
              linked |-> user[u].linked])

\* ... else signs up, where create_user tests the e-mail again, under the lock:
\* an address registered meanwhile raises, and everything rolls back
OidcCommit(w) ==
    LET op == req[w].op
        u == op.user
    IN /\ Doing(w, "oidc")
       /\ op.found = user[u].exists
       /\ user' = [user EXCEPT
             ![u] = IF op.found THEN [@ EXCEPT !.linked = TRUE]
                    ELSE NewUser(FALSE, TRUE)]
       /\ OpensSession(u, user'[u].role)
       /\ Commits(w, Idle)
       /\ UNCHANGED <<accepted, refused>>

IdNext ==
    \/ \E w \in Worker, u \in User :
        \/ SignupBegin(w, u) \/ Challenge(w, u) \/ VerifyTotp(w, u)
        \/ Bearer(w, u) \/ OidcRead(w, u)
        \/ \E good \in BOOLEAN : LoginRead(w, u, good)
        \/ \E c \in Code : VerifyRecovery(w, u, c)
    \/ \E w \in Worker, i \in 1..MaxSessions :
        CookieRead(w, i) \/ LogoutRead(w, i)
    \/ \E w \in Worker :
        \/ Flush(w) \/ Rollback(w) \/ EnrolRead(w) \/ ConfirmRead(w)
        \/ SignupCommit(w) \/ RefuseLogin(w) \/ LoginCommit(w) \/ TotpCommit(w)
        \/ RecoverCommit(w) \/ CookieCommit(w) \/ LogoutCommit(w)
        \/ EnrolCommit(w) \/ ConfirmCommit(w) \/ OidcCommit(w)
    \/ \E u \in User : ExpireToken(u)

IdSpec == IdInit /\ [][IdNext]_idVars

-----------------------------------------------------------------------------
\* "5 failed logins locks the user for 15 minutes" (identity.py:7): whoever was
\* refused MaxFailed passwords in a row is locked. No time passes here, so that
\* a lock that was set would still stand.
LockoutHolds == \A u \in User : refused[u] >= MaxFailed => user[u].locked

\* A recovery code that completed a login is in no later list and completes no
\* second login, unless two requests about the codes of that user overlapped:
\* complete_mfa stores a list computed before it holds the lock.
SpentStaysSpent ==
    \A u \in User \ overlap :
        /\ \A n \in DOMAIN accepted[u] : accepted[u][n] \notin user[u].codes
        /\ \A n, k \in DOMAIN accepted[u] :
              accepted[u][n] = accepted[u][k] => n = k

\* Once revoked, a session stays revoked, whatever requests were already
\* loading it: they write last_seen_at and no other column.
RevocationSticks ==
    [][\A i \in DOMAIN session : session[i].revoked => session'[i].revoked]_idVars
=============================================================================
