----------------------------- MODULE DeskProofs -----------------------------
(***************************************************************************)
(* What Identity and Desk promise for any number of workers, users, keys   *)
(* and alerts, however their requests interleave: spent recovery codes     *)
(* stay spent, revocation is final, and what two requests did not race     *)
(* about is whole and unique.                                              *)
(***************************************************************************)
EXTENDS Desk, TLAPS

(* Rows, sessions and requests as they can be found *)

\* codes of any set of codes, also beyond the bound
AnyCode == Nat \X (1..CodesPerSet)
\* rows as requests leave them
UserRow == [exists: BOOLEAN, password: BOOLEAN, role: Role, failed: {0},
            locked: {FALSE}, secret: Nat, mfa: BOOLEAN, sets: Nat,
            codes: SUBSET AnyCode, linked: BOOLEAN]
SessionRow == [user: User, role: Role, revoked: BOOLEAN]
Real == {u \in User : user[u].exists}

\* a request, given the users that exist and the number of sessions
OpOK(op, real, n) ==
    /\ op.kind \in {"signup", "oidc"} => op.user \in User
    /\ op.kind \in {"login", "fail", "totp", "recover", "enrol", "confirm"} => op.user \in real
    /\ op.kind = "recover" => op.code \in AnyCode /\ op.left \in SUBSET AnyCode
    /\ op.kind \in {"seen", "logout"} => op.session \in 1..n
ReqOK(r, real, n) ==
    /\ r.pc = "read" => r = [pc |-> "read", op |-> r.op]
    /\ r.pc \in {"read", "flushed"} => OpOK(r.op, real, n)
    /\ r.pc = "authed" => r.user \in real /\ r.role \in Role

RowsOK ==
    /\ user \in [User -> UserRow]
    /\ \A u \in User : ~user[u].exists => user[u].codes = {} /\ user[u].sets = 0
    /\ session \in Seq(SessionRow)
    /\ \A i \in 1..Len(session) : session[i].user \in Real
    /\ token \subseteq Real
    /\ req = [w \in Worker |-> req[w]]
    /\ \A w \in Worker : ReqOK(req[w], Real, Len(session))

\* A sound request stays sound when users and sessions are added.
LEMMA SoundStays ==
    ASSUME NEW r, NEW R, NEW S, R \subseteq S, NEW m \in Nat, NEW n \in Nat, m <= n,
           ReqOK(r, R, m)
    PROVE  ReqOK(r, S, n)
<1>1. ASSUME OpOK(r.op, R, m) PROVE OpOK(r.op, S, n)
  BY <1>1 DEF OpOK
<1> QED
  BY <1>1 DEF ReqOK

\* A write of one worker: it may change rows, open sessions, and put the worker
\* into another state.
LEMMA WriteKeepsRows ==
    ASSUME RowsOK, NEW w \in Worker, NEW r,
           req' = req \/ req' = [req EXCEPT ![w] = r],
           ReqOK(r, Real', Len(session')),
           user' \in [User -> UserRow],
           \A u \in User : ~user'[u].exists => user'[u].codes = {} /\ user'[u].sets = 0,
           session' \in Seq(SessionRow), Len(session) <= Len(session'),
           \A i \in 1..Len(session') : session'[i].user \in Real',
           token' \subseteq Real', Real \subseteq Real'
    PROVE  RowsOK'
<1>1. req = [v \in Worker |-> req[v]] /\ \A v \in Worker : ReqOK(req[v], Real, Len(session))
  BY DEF RowsOK
<1>2. Len(session) \in Nat /\ Len(session') \in Nat
  BY DEF RowsOK
<1>3. \A v \in Worker : ReqOK(req[v], Real', Len(session'))
  BY <1>1, <1>2, SoundStays
<1>4. req' = [v \in Worker |-> req'[v]]
  BY <1>1
<1>5. \A v \in Worker : req'[v] = req[v] \/ (v = w /\ req'[v] = r)
  BY <1>1
<1>6. \A v \in Worker : ReqOK(req'[v], Real', Len(session'))
  BY <1>3, <1>5
<1>7. (\A v \in Worker : ReqOK(req[v], Real, Len(session)))'
  BY <1>6
<1> QED
  BY <1>4, <1>7 DEF RowsOK

\* One row of users is written, and it is that of an existing user.
LEMMA OneRow ==
    ASSUME RowsOK, NEW u \in User, user' = [v \in User |-> user'[v]],
           \A v \in User \ {u} : user'[v] = user[v],
           user'[u] \in UserRow, user'[u].exists
    PROVE  /\ user' \in [User -> UserRow] /\ Real \subseteq Real' /\ u \in Real'
           /\ \A v \in User : ~user'[v].exists => user'[v].codes = {} /\ user'[v].sets = 0
<1>1. \A v \in User : user'[v] \in UserRow
  BY DEF RowsOK
<1>2. user' \in [User -> UserRow]
  BY <1>1
<1>3. Real \subseteq Real' /\ u \in Real'
  BY DEF Real
<1>4. ASSUME NEW v \in User, ~user'[v].exists
      PROVE  user'[v].codes = {} /\ user'[v].sets = 0
  BY <1>4 DEF RowsOK
<1> QED
  BY <1>2, <1>3, <1>4

\* A login opens one session and one access token, for an existing user.
LEMMA LoginOpens ==
    ASSUME RowsOK, NEW u \in User, NEW role \in Role, OpensSession(u, role), u \in Real',
           Real \subseteq Real'
    PROVE  /\ session' \in Seq(SessionRow) /\ Len(session') = Len(session) + 1
           /\ \A i \in 1..Len(session) : session'[i] = session[i]
           /\ \A i \in 1..Len(session') : session'[i].user \in Real'
           /\ token' \subseteq Real'
<1> DEFINE row == [user |-> u, role |-> role, revoked |-> FALSE]
<1>1. row \in SessionRow /\ row.user = u
  BY DEF SessionRow
<1>2. session' = Append(session, row) /\ token' = token \cup {u} /\ session \in Seq(SessionRow)
  BY DEF OpensSession, RowsOK
<1> HIDE DEF row
<1>3. /\ session' \in Seq(SessionRow) /\ Len(session') = Len(session) + 1
      /\ \A i \in 1..Len(session) : session'[i] = session[i]
      /\ session'[Len(session) + 1] = row
  BY <1>1, <1>2
<1>4. ASSUME NEW i \in 1..Len(session') PROVE session'[i].user \in Real'
  <2>1. i \in 1..Len(session) \/ i = Len(session) + 1
    BY <1>2, <1>3
  <2> QED
    BY <1>1, <1>3, <2>1 DEF RowsOK
<1> QED
  BY <1>2, <1>3, <1>4 DEF RowsOK

-----------------------------------------------------------------------------
(* The steps of Identity *)

\* the operation a handler has read is sound, and the list of recovery codes to
\* store is the list as it was read without the code
Sound(op) ==
    /\ OpOK(op, Real, Len(session))
    /\ op.kind = "recover" => /\ op.code \in user[op.user].codes
                              /\ op.left = user[op.user].codes \ {op.code}

\* a step that has nothing to do with recovery codes and reads nothing
Quiet(w) ==
    /\ UNCHANGED <<accepted, overlap>>
    /\ \A u \in User : user'[u].codes = user[u].codes /\ user'[u].sets = user[u].sets
    /\ \A v \in Worker \ {w} : req'[v] = req[v]
    /\ \/ req'[w] = req[w]
       \/ req'[w].pc \notin {"read", "flushed"}
       \/ req[w].pc = "read" /\ req'[w].op = req[w].op

\* sessions stay, and stay revoked
Lasting ==
    /\ DOMAIN session \subseteq DOMAIN session'
    /\ \A i \in DOMAIN session : session[i].revoked => session'[i].revoked

\* The handlers that read.
LEMMA ReadersAreSound ==
    ASSUME RowsOK, NEW w \in Worker,
           \/ \E u \in User : \/ SignupBegin(w, u) \/ VerifyTotp(w, u) \/ OidcRead(w, u)
                              \/ \E good \in BOOLEAN : LoginRead(w, u, good)
                              \/ \E c \in Code : VerifyRecovery(w, u, c)
           \/ \E i \in 1..MaxSessions : CookieRead(w, i) \/ LogoutRead(w, i)
           \/ EnrolRead(w) \/ ConfirmRead(w)
    PROVE  \E op : Reads_(w, op) /\ Sound(op)
<1>1. ASSUME NEW u \in User, SignupBegin(w, u) \/ OidcRead(w, u)
      PROVE  \E op : Reads_(w, op) /\ Sound(op)
  BY <1>1 DEF SignupBegin, OidcRead, Begin, Sound, OpOK
<1>2. ASSUME NEW u \in User, NEW good \in BOOLEAN, VerifyTotp(w, u) \/ LoginRead(w, u, good)
      PROVE  \E op : Reads_(w, op) /\ Sound(op)
  <2>1. CASE VerifyTotp(w, u)
    BY <2>1 DEF VerifyTotp, Begin, Sound, OpOK, Real
  <2>2. CASE LoginRead(w, u, good)
    <3>1. PICK kind \in {"login", "fail"} : Reads_(w, [kind |-> kind, user |-> u])
      BY <2>2 DEF LoginRead, Begin
    <3>2. u \in Real
      BY <2>2 DEF LoginRead, Real
    <3>3. Sound([kind |-> kind, user |-> u])
      BY <3>2 DEF Sound, OpOK
    <3> QED
      BY <3>1, <3>3
  <2> QED
    BY <1>2, <2>1, <2>2
<1>3. ASSUME NEW u \in User, NEW c \in Code, VerifyRecovery(w, u, c)
      PROVE  \E op : Reads_(w, op) /\ Sound(op)
  <2> DEFINE op == [kind |-> "recover", user |-> u, code |-> c, left |-> user[u].codes \ {c}]
  <2>1. Reads_(w, op) /\ u \in Real /\ c \in user[u].codes
    BY <1>3 DEF VerifyRecovery, Begin, Real
  <2>2. user[u].codes \in SUBSET AnyCode
    BY DEF RowsOK, UserRow
  <2>3. Sound(op)
    BY <2>1, <2>2 DEF Sound, OpOK
  <2> QED
    BY <2>1, <2>3
<1>4. ASSUME NEW i \in 1..MaxSessions, CookieRead(w, i) \/ LogoutRead(w, i)
      PROVE  \E op : Reads_(w, op) /\ Sound(op)
  <2>1. DOMAIN session = 1..Len(session)
    BY DEF RowsOK
  <2> QED
    BY <1>4, <2>1 DEF CookieRead, LogoutRead, Begin, Sound, OpOK
<1>5. ASSUME EnrolRead(w) \/ ConfirmRead(w)
      PROVE  \E op : Reads_(w, op) /\ Sound(op)
  <2>1. req[w].pc = "authed" /\ req[w].user \in Real
    BY <1>5 DEF EnrolRead, ConfirmRead, Handle, RowsOK, ReqOK
  <2> QED
    BY <1>5, <2>1 DEF EnrolRead, ConfirmRead, Handle, Sound, OpOK
<1> QED
  BY <1>1, <1>2, <1>3, <1>4, <1>5

\* Reading changes no row.
LEMMA ReadKeepsRows ==
    ASSUME RowsOK, NEW w \in Worker, NEW op, Reads_(w, op), Sound(op)
    PROVE  RowsOK' /\ Lasting
<1> DEFINE r == [pc |-> "read", op |-> op]
<1>1. UNCHANGED <<user, session, token>> /\ req' = [req EXCEPT ![w] = r]
  BY DEF Reads_
<1>2. ReqOK(r, Real, Len(session))
  BY DEF ReqOK, Sound
<1>3. Real' = Real
  BY <1>1 DEF Real
<1>4. Len(session) \in Nat
  BY DEF RowsOK
<1> HIDE DEF r
<1>5. RowsOK'
  BY <1>1, <1>2, <1>3, <1>4, WriteKeepsRows DEF RowsOK
<1> QED
  BY <1>1, <1>5 DEF Lasting

\* What a worker that has the lock is about to write is sound.
LEMMA WritersAreSound ==
    ASSUME RowsOK, NEW w \in Worker, req[w].pc = "flushed"
    PROVE  OpOK(req[w].op, Real, Len(session))
BY DEF RowsOK, ReqOK

\* Resetting the counter of failures changes nothing else.
LEMMA ResetRow ==
    ASSUME NEW row \in UserRow, row.exists
    PROVE  LET r == [row EXCEPT !.failed = 0, !.locked = FALSE]
           IN r \in UserRow /\ r.exists /\ r.codes = row.codes /\ r.sets = row.sets
<1> DEFINE one == [row EXCEPT !.failed = 0]
           r == [one EXCEPT !.locked = FALSE]
<1>1. one \in UserRow /\ one.codes = row.codes /\ one.sets = row.sets
  BY DEF UserRow
<1>2. one.exists
  BY DEF UserRow
<1> HIDE DEF one
<1>3. r \in UserRow /\ r.codes = one.codes /\ r.sets = one.sets
  BY <1>1 DEF UserRow
<1>4. r.exists
  BY <1>1, <1>2 DEF UserRow
<1>5. r = [row EXCEPT !.failed = 0, !.locked = FALSE]
  BY DEF one
<1> QED
  BY <1>1, <1>3, <1>4, <1>5

\* The requests that end in a login.
LEMMA LoginKeepsRows ==
    ASSUME RowsOK, NEW w \in Worker,
           SignupCommit(w) \/ LoginCommit(w) \/ TotpCommit(w) \/ OidcCommit(w) \/ RecoverCommit(w)
    PROVE  RowsOK' /\ Lasting /\ (RecoverCommit(w) \/ Quiet(w))
<1> DEFINE u == req[w].op.user
<1>1. OpOK(req[w].op, Real, Len(session)) /\ req[w].pc = "flushed"
  BY WritersAreSound, Zenon DEF SignupCommit, LoginCommit, TotpCommit, OidcCommit, RecoverCommit, Doing
<1>2. /\ user = [v \in User |-> user[v]] /\ \A v \in User : user[v] \in UserRow
      /\ req = [v \in Worker |-> req[v]]
  BY DEF RowsOK
<1>3. \A b \in BOOLEAN : NewUser(TRUE, FALSE) \in UserRow /\ NewUser(FALSE, TRUE) \in UserRow
  BY DEF NewUser, UserRow, Role
<1>4. /\ NewUser(TRUE, FALSE).exists /\ NewUser(FALSE, TRUE).exists
      /\ NewUser(TRUE, FALSE).codes = {} /\ NewUser(FALSE, TRUE).codes = {}
      /\ NewUser(TRUE, FALSE).sets = 0 /\ NewUser(FALSE, TRUE).sets = 0
      /\ NewUser(TRUE, FALSE).role = "owner" /\ NewUser(FALSE, TRUE).role = "owner"
  BY DEF NewUser
<1>5. ASSUME u \in User, user' = [v \in User |-> user'[v]],
             \A v \in User \ {u} : user'[v] = user[v],
             user'[u] \in UserRow, user'[u].exists,
             NEW role \in Role, OpensSession(u, role), Commits(w, Idle)
      PROVE  RowsOK' /\ Lasting /\ req' = [req EXCEPT ![w] = Idle]
  <2>1. /\ user' \in [User -> UserRow] /\ Real \subseteq Real' /\ u \in Real'
        /\ \A v \in User : ~user'[v].exists => user'[v].codes = {} /\ user'[v].sets = 0
    BY <1>5, OneRow
  <2>2. /\ session' \in Seq(SessionRow) /\ Len(session') = Len(session) + 1
        /\ \A i \in 1..Len(session) : session'[i] = session[i]
        /\ \A i \in 1..Len(session') : session'[i].user \in Real'
        /\ token' \subseteq Real'
    BY <1>5, <2>1, LoginOpens
  <2>3. session \in Seq(SessionRow) /\ Len(session) <= Len(session')
    BY <2>2 DEF RowsOK
  <2>4. req' = [req EXCEPT ![w] = Idle] /\ ReqOK(Idle, Real', Len(session'))
    BY <1>5 DEF Commits, Idle, ReqOK
  <2>5. RowsOK'
    BY <2>1, <2>2, <2>3, <2>4, WriteKeepsRows
  <2>6. Lasting
    BY <2>2, <2>3 DEF Lasting
  <2> QED
    BY <2>4, <2>5, <2>6
<1>6. ASSUME req' = [req EXCEPT ![w] = Idle]
      PROVE  /\ \A v \in Worker \ {w} : req'[v] = req[v]
             /\ req'[w].pc \notin {"read", "flushed"}
  BY <1>2, <1>6 DEF Idle
<1>7. CASE SignupCommit(w)
  <2>1. /\ u \in User /\ ~user[u].exists /\ user' = [user EXCEPT ![u] = NewUser(TRUE, FALSE)]
        /\ OpensSession(u, "owner") /\ Commits(w, Idle) /\ UNCHANGED accepted
    BY <1>1, <1>7 DEF SignupCommit, Doing, OpOK
  <2>2. "owner" \in Role
    BY DEF Role
  <2>3. /\ user' = [v \in User |-> user'[v]] /\ \A v \in User \ {u} : user'[v] = user[v]
        /\ user'[u] = NewUser(TRUE, FALSE)
    BY <1>2, <2>1
  <2>4. RowsOK' /\ Lasting /\ req' = [req EXCEPT ![w] = Idle]
    BY <1>3, <1>4, <1>5, <2>1, <2>2, <2>3
  <2>5. \A v \in User : user'[v].codes = user[v].codes /\ user'[v].sets = user[v].sets
    BY <1>4, <2>1, <2>3, Zenon DEF RowsOK
  <2> QED
    BY <1>6, <2>1, <2>4, <2>5 DEF Quiet, Commits
<1>8. CASE LoginCommit(w)
  <2>1. /\ u \in Real /\ user' = [user EXCEPT ![u].failed = 0, ![u].locked = FALSE]
        /\ OpensSession(u, user[u].role) /\ Commits(w, Idle) /\ UNCHANGED accepted
    BY <1>1, <1>8, SMTT(30) DEF LoginCommit, Doing, OpOK
  <2>2. u \in User /\ user[u].exists /\ user[u].role \in Role /\ user[u] \in UserRow
    BY <1>2, <2>1, Zenon DEF Real, UserRow
  <2>3. /\ user' = [v \in User |-> user'[v]] /\ \A v \in User \ {u} : user'[v] = user[v]
        /\ user'[u] = [user[u] EXCEPT !.failed = 0, !.locked = FALSE]
    BY <1>2, <2>1, <2>2, Zenon
  <2>4. /\ user'[u] \in UserRow /\ user'[u].exists
        /\ user'[u].codes = user[u].codes /\ user'[u].sets = user[u].sets
    BY <2>2, <2>3, ResetRow, ZenonT(40)
  <2>5. RowsOK' /\ Lasting /\ req' = [req EXCEPT ![w] = Idle]
    BY <1>5, <2>1, <2>2, <2>3, <2>4, Zenon
  <2> QED
    BY <1>6, <2>1, <2>3, <2>4, <2>5, Zenon DEF Quiet, Commits
<1>9. CASE TotpCommit(w)
  <2>1. /\ u \in Real /\ UNCHANGED <<user, accepted>>
        /\ OpensSession(u, user[u].role) /\ Commits(w, Idle)
    BY <1>1, <1>9 DEF TotpCommit, Doing, OpOK
  <2>2. u \in User /\ user[u].exists /\ user[u].role \in Role /\ user[u] \in UserRow
    BY <1>2, <2>1 DEF Real, UserRow
  <2>3. RowsOK' /\ Lasting /\ req' = [req EXCEPT ![w] = Idle]
    BY <1>2, <1>5, <2>1, <2>2
  <2> QED
    BY <1>6, <2>1, <2>3 DEF Quiet, Commits
<1>10. CASE OidcCommit(w)
  <2> DEFINE row == IF req[w].op.found THEN [user[u] EXCEPT !.linked = TRUE]
                    ELSE NewUser(FALSE, TRUE)
  <2>1. /\ u \in User /\ req[w].op.found = user[u].exists
        /\ OpensSession(u, user'[u].role) /\ Commits(w, Idle) /\ UNCHANGED accepted
    BY <1>1, <1>10 DEF OidcCommit, Doing, OpOK
  <2>2. user' = [user EXCEPT ![u] = row]
    BY <1>10 DEF OidcCommit
  <2>3. user[u] \in UserRow
    BY <1>2, <2>1
  <2>4. /\ row \in UserRow /\ row.exists /\ row.role \in Role
        /\ row.codes = user[u].codes /\ row.sets = user[u].sets
    <3>1. CASE req[w].op.found
      <4>1. row = [user[u] EXCEPT !.linked = TRUE] /\ user[u].exists
        BY <2>1, <3>1
      <4> QED
        BY <2>3, <4>1 DEF UserRow
    <3>2. CASE ~req[w].op.found
      <4>1. row = NewUser(FALSE, TRUE) /\ ~user[u].exists
        BY <2>1, <3>2
      <4>2. user[u].codes = {} /\ user[u].sets = 0
        BY <2>1, <4>1 DEF RowsOK
      <4>3. row \in UserRow /\ row.exists /\ row.codes = {} /\ row.sets = 0 /\ row.role = "owner"
        BY <1>3, <1>4, <4>1
      <4> QED
        BY <4>2, <4>3 DEF Role
    <3> QED
      BY <3>1, <3>2
  <2> HIDE DEF row
  <2>5. /\ user' = [v \in User |-> user'[v]] /\ \A v \in User \ {u} : user'[v] = user[v]
        /\ user'[u] = row
    BY <1>2, <2>1, <2>2
  <2>6. RowsOK' /\ Lasting /\ req' = [req EXCEPT ![w] = Idle]
    BY <1>5, <2>1, <2>4, <2>5, SMTT(30)
  <2> QED
    BY <1>6, <2>1, <2>4, <2>5, <2>6 DEF Quiet, Commits
<1>11. CASE RecoverCommit(w)
  <2> DEFINE left == req[w].op.left
  <2>1. /\ u \in Real /\ left \in SUBSET AnyCode /\ user' = [user EXCEPT ![u].codes = left]
        /\ OpensSession(u, user[u].role) /\ Commits(w, Idle)
    BY <1>1, <1>11, SMTT(30) DEF RecoverCommit, Doing, OpOK
  <2> HIDE DEF left
  <2>2. u \in User /\ user[u].exists /\ user[u].role \in Role /\ user[u] \in UserRow
    BY <1>2, <2>1 DEF Real, UserRow
  <2>3. /\ user' = [v \in User |-> user'[v]] /\ \A v \in User \ {u} : user'[v] = user[v]
        /\ user'[u] = [user[u] EXCEPT !.codes = left]
    BY <1>2, <2>1, <2>2, SMTT(30)
  <2>4. user'[u] \in UserRow /\ user'[u].exists
    BY <2>1, <2>2, <2>3, Zenon DEF UserRow
  <2> QED
    BY <1>5, <1>11, <2>1, <2>2, <2>3, <2>4, Zenon
<1> QED
  BY <1>7, <1>8, <1>9, <1>10, <1>11, SMTT(30)

\* The other steps of a worker that write no list of recovery codes.
LEMMA PlainKeepsRows ==
    ASSUME RowsOK, NEW w \in Worker, NEW r, req' = req \/ req' = [req EXCEPT ![w] = r],
           ReqOK(r, Real', Len(session')),
           \/ r.pc \notin {"read", "flushed"}
           \/ req[w].pc = "read" /\ r.op = req[w].op,
           UNCHANGED <<user, accepted, overlap>>, token' \subseteq token,
           \/ session' = session
           \/ \E i \in DOMAIN session : session' = [session EXCEPT ![i].revoked = TRUE]
    PROVE  RowsOK' /\ Lasting /\ Quiet(w)
<1>1. Real' = Real
  BY DEF Real
<1>2. session \in Seq(SessionRow) /\ DOMAIN session = 1..Len(session) /\ Len(session) \in Nat
  BY DEF RowsOK
<1>3. /\ session' \in Seq(SessionRow) /\ Len(session') = Len(session) /\ Lasting
      /\ \A i \in 1..Len(session) : session'[i].user = session[i].user
  <2>1. CASE session' = session
    BY <1>2, <2>1 DEF Lasting
  <2>2. ASSUME NEW i \in DOMAIN session, session' = [session EXCEPT ![i].revoked = TRUE]
        PROVE  /\ session' \in Seq(SessionRow) /\ Len(session') = Len(session) /\ Lasting
               /\ \A k \in 1..Len(session) : session'[k].user = session[k].user
    <3> DEFINE row == [session[i] EXCEPT !.revoked = TRUE]
    <3>1. session[i] \in SessionRow
      BY <1>2
    <3>2. row \in SessionRow /\ row.user = session[i].user
      BY <3>1 DEF SessionRow
    <3>3. row.revoked
      BY <3>1 DEF SessionRow
    <3>4. session' = [session EXCEPT ![i] = row]
      BY <2>2
    <3> HIDE DEF row
    <3>5. /\ session' \in Seq(SessionRow) /\ Len(session') = Len(session)
          /\ \A k \in DOMAIN session : session'[k] = IF k = i THEN row ELSE session[k]
          /\ DOMAIN session' = DOMAIN session
      BY <1>2, <3>2, <3>4
    <3>6. \A k \in DOMAIN session : session[k].revoked => session'[k].revoked
      BY <3>3, <3>5, Zenon
    <3> QED
      BY <1>2, <3>2, <3>5, <3>6 DEF Lasting
  <2> QED
    BY <2>1, <2>2
<1>4. \A i \in 1..Len(session') : session'[i].user \in Real'
  BY <1>1, <1>3 DEF RowsOK
<1>5. RowsOK'
  <2>1. Len(session) <= Len(session') /\ token' \subseteq Real' /\ Real \subseteq Real'
    BY <1>1, <1>2, <1>3 DEF RowsOK
  <2>2. user' \in [User -> UserRow]
        /\ \A u \in User : ~user'[u].exists => user'[u].codes = {} /\ user'[u].sets = 0
    BY DEF RowsOK
  <2> QED
    BY <1>3, <1>4, <2>1, <2>2, WriteKeepsRows
<1>6. Quiet(w)
  <2>1. req' = req \/ (req'[w] = r /\ \A v \in Worker \ {w} : req'[v] = req[v])
    BY DEF RowsOK
  <2> QED
    BY <2>1 DEF Quiet
<1> QED
  BY <1>3, <1>5, <1>6

LEMMA OthersKeepRows ==
    ASSUME RowsOK, NEW w \in Worker,
           \/ Flush(w) \/ Rollback(w) \/ RefuseLogin(w) \/ CookieCommit(w) \/ LogoutCommit(w)
           \/ \E u \in User : Bearer(w, u) \/ ExpireToken(u)
    PROVE  RowsOK' /\ Lasting /\ Quiet(w)
<1> USE DEF Commits, Doing
<1>1. ReqOK(Idle, Real', Len(session'))
  BY DEF ReqOK, Idle
<1>2. CASE Flush(w)
  <2> DEFINE r == [req[w] EXCEPT !.pc = "flushed"]
  <2>1. /\ req[w].pc = "read" /\ req' = [req EXCEPT ![w] = r]
        /\ UNCHANGED <<user, session, token, accepted, overlap>>
    BY <1>2 DEF Flush
  <2>2. req[w] = [pc |-> "read", op |-> req[w].op] /\ OpOK(req[w].op, Real, Len(session))
    BY <2>1 DEF RowsOK, ReqOK
  <2>3. r.pc = "flushed" /\ r.op = req[w].op
    BY <2>2
  <2>4. Real' = Real
    BY <2>1 DEF Real
  <2>5. ReqOK(r, Real', Len(session'))
    BY <2>1, <2>2, <2>3, <2>4 DEF ReqOK
  <2> HIDE DEF r
  <2> QED
    BY <2>1, <2>3, <2>5, PlainKeepsRows
<1>3. CASE Rollback(w) \/ RefuseLogin(w)
  <2>1. /\ req' = [req EXCEPT ![w] = Idle]
        /\ UNCHANGED <<user, session, token, accepted, overlap>>
    BY <1>3 DEF Rollback, RefuseLogin, RollsBack
  <2>2. Idle.pc \notin {"read", "flushed"}
    BY DEF Idle
  <2> QED
    BY <1>1, <2>1, <2>2, PlainKeepsRows
<1>4. CASE CookieCommit(w)
  <2> DEFINE i == req[w].op.session
             r == [pc |-> "authed", user |-> session[i].user, role |-> session[i].role]
  <2>1. /\ req' = [req EXCEPT ![w] = r] /\ i \in 1..Len(session)
        /\ UNCHANGED <<user, session, token, accepted, overlap>>
    BY <1>4, WritersAreSound DEF CookieCommit, OpOK
  <2>2. session[i].user \in Real /\ session[i].role \in Role /\ Real' = Real
    <3>1. session[i] \in SessionRow /\ session[i].user \in Real
      BY <2>1 DEF RowsOK
    <3> QED
      BY <2>1, <3>1 DEF SessionRow, Real
  <2>3. ReqOK(r, Real', Len(session')) /\ r.pc \notin {"read", "flushed"}
    BY <2>2 DEF ReqOK
  <2> HIDE DEF r
  <2> QED
    BY <2>1, <2>3, PlainKeepsRows
<1>5. CASE LogoutCommit(w)
  <2>1. /\ req' = [req EXCEPT ![w] = Idle] /\ req[w].op.session \in DOMAIN session
        /\ session' = [session EXCEPT ![req[w].op.session].revoked = TRUE]
        /\ UNCHANGED <<user, token, accepted, overlap>>
    BY <1>5, WritersAreSound DEF LogoutCommit, OpOK, RowsOK
  <2>2. Idle.pc \notin {"read", "flushed"}
    BY DEF Idle
  <2> QED
    BY <1>1, <2>1, <2>2, PlainKeepsRows
<1>6. ASSUME NEW u \in User, Bearer(w, u) PROVE RowsOK' /\ Lasting /\ Quiet(w)
  <2> DEFINE r == [pc |-> "authed", user |-> u, role |-> user[u].role]
  <2>1. /\ req' = [req EXCEPT ![w] = r] /\ u \in Real
        /\ UNCHANGED <<user, session, token, accepted, overlap>>
    BY <1>6 DEF Bearer, RowsOK
  <2>2. user[u].role \in Role /\ Real' = Real
    BY <2>1 DEF RowsOK, UserRow, Real
  <2>3. ReqOK(r, Real', Len(session')) /\ r.pc \notin {"read", "flushed"}
    BY <2>1, <2>2 DEF ReqOK
  <2> HIDE DEF r
  <2> QED
    BY <2>1, <2>3, PlainKeepsRows
<1>7. ASSUME NEW u \in User, ExpireToken(u) PROVE RowsOK' /\ Lasting /\ Quiet(w)
  <2>1. /\ req' = req /\ token' \subseteq token
        /\ UNCHANGED <<user, session, accepted, overlap>>
    BY <1>7 DEF ExpireToken
  <2>2. Idle.pc \notin {"read", "flushed"}
    BY DEF Idle
  <2> QED
    BY <1>1, <2>1, <2>2, PlainKeepsRows
<1> QED
  BY <1>2, <1>3, <1>4, <1>5, <1>6, <1>7

\* The second factor: enrolment, confirmation, and the challenge of a login.
LEMMA FactorKeepsRows ==
    ASSUME RowsOK, NEW w \in Worker,
           EnrolCommit(w) \/ ConfirmCommit(w) \/ \E u \in User : Challenge(w, u)
    PROVE  RowsOK' /\ Lasting /\ (ConfirmCommit(w) \/ Quiet(w))
<1> USE DEF Commits, Doing
<1>1. ReqOK(Idle, Real', Len(session')) /\ Idle.pc \notin {"read", "flushed"}
  BY DEF ReqOK, Idle
<1>2. /\ user = [v \in User |-> user[v]] /\ \A v \in User : user[v] \in UserRow
      /\ req = [v \in Worker |-> req[v]]
  BY DEF RowsOK
<1>3. ASSUME NEW u \in User, user' = [v \in User |-> user'[v]],
             \A v \in User \ {u} : user'[v] = user[v],
             user'[u] \in UserRow, user'[u].exists,
             req' = req \/ req' = [req EXCEPT ![w] = Idle], UNCHANGED <<session, token>>
      PROVE  RowsOK' /\ Lasting
  <2>1. /\ user' \in [User -> UserRow] /\ Real \subseteq Real'
        /\ \A v \in User : ~user'[v].exists => user'[v].codes = {} /\ user'[v].sets = 0
    BY <1>3, OneRow
  <2>2. /\ session' \in Seq(SessionRow) /\ Len(session) <= Len(session')
        /\ \A i \in 1..Len(session') : session'[i].user \in Real'
        /\ token' \subseteq Real'
    BY <1>3, <2>1 DEF RowsOK
  <2>3. RowsOK'
    BY <1>1, <1>3, <2>1, <2>2, WriteKeepsRows
  <2> QED
    BY <1>3, <2>3 DEF Lasting
<1>4. CASE EnrolCommit(w)
  <2> DEFINE u == req[w].op.user
  <2>1. /\ u \in Real /\ user' = [user EXCEPT ![u].secret = @ + 1]
        /\ req' = [req EXCEPT ![w] = Idle] /\ UNCHANGED <<session, token, accepted, overlap>>
    BY <1>4, WritersAreSound DEF EnrolCommit, OpOK
  <2>2. u \in User /\ user[u].exists /\ user[u] \in UserRow /\ user[u].secret + 1 \in Nat
    <3>1. u \in User /\ user[u].exists /\ user[u] \in UserRow
      BY <1>2, <2>1 DEF Real
    <3>2. user[u].secret \in Nat
      BY <3>1 DEF UserRow
    <3> QED
      BY <3>1, <3>2
  <2> HIDE DEF u
  <2>3. /\ user' = [v \in User |-> user'[v]] /\ \A v \in User \ {u} : user'[v] = user[v]
        /\ user'[u] = [user[u] EXCEPT !.secret = user[u].secret + 1]
    BY <1>2, <2>1, <2>2
  <2>4. user'[u] \in UserRow
    BY <2>2, <2>3 DEF UserRow
  <2>5. user'[u].exists
    BY <2>2, <2>3 DEF UserRow
  <2>6. user'[u].codes = user[u].codes /\ user'[u].sets = user[u].sets
    BY <2>2, <2>3 DEF UserRow
  <2>7. \A v \in Worker \ {w} : req'[v] = req[v] /\ req'[w] = Idle
    BY <1>2, <2>1
  <2>8. req'[w].pc \notin {"read", "flushed"}
    BY <1>1, <1>2, <2>1
  <2> QED
    BY <1>3, <2>1, <2>2, <2>3, <2>4, <2>5, <2>6, <2>7, <2>8 DEF Quiet
<1>5. CASE ConfirmCommit(w)
  <2> DEFINE u == req[w].op.user
             codes == CodeSet(user[u].sets + 1)
  <2>1. /\ u \in Real /\ user[u].sets < MaxSets
        /\ user' = [user EXCEPT ![u].mfa = TRUE, ![u].sets = @ + 1, ![u].codes = codes]
        /\ req' = [req EXCEPT ![w] = Idle] /\ UNCHANGED <<session, token, accepted, overlap>>
    BY <1>5, WritersAreSound, Zenon DEF ConfirmCommit, OpOK
  <2>2. u \in User /\ user[u].exists /\ user[u] \in UserRow /\ user[u].sets \in Nat
    BY <1>2, <2>1, Zenon DEF Real, UserRow
  <2>3. codes \in SUBSET AnyCode /\ user[u].sets + 1 \in Nat
    BY <2>2 DEF CodeSet, AnyCode
  <2> HIDE DEF u, codes
  <2>4. /\ user' = [v \in User |-> user'[v]] /\ \A v \in User \ {u} : user'[v] = user[v]
        /\ user'[u] = [[[user[u] EXCEPT !.mfa = TRUE] EXCEPT !.sets = user[u].sets + 1]
                       EXCEPT !.codes = codes]
    BY <1>2, <2>1, <2>2 DEF UserRow
  <2>5. user'[u] \in UserRow /\ user'[u].exists
    <3> DEFINE one == [user[u] EXCEPT !.mfa = TRUE]
    <3>1. one \in UserRow
      BY <2>2 DEF UserRow
    <3>2. one.exists
      BY <2>2 DEF UserRow
    <3>3. user'[u] = [[one EXCEPT !.sets = user[u].sets + 1] EXCEPT !.codes = codes]
      BY <2>4
    <3> HIDE DEF one
    <3>4. user'[u] \in UserRow
      BY <2>3, <3>1, <3>3 DEF UserRow
    <3>5. user'[u].exists
      BY <3>1, <3>2, <3>3 DEF UserRow
    <3> QED
      BY <3>4, <3>5
  <2> QED
    BY <1>3, <1>5, <2>1, <2>2, <2>4, <2>5, ZenonT(40)
<1>6. ASSUME NEW u \in User, Challenge(w, u) PROVE RowsOK' /\ Lasting /\ Quiet(w)
  <2>1. /\ user[u].exists /\ user' = [user EXCEPT ![u].failed = 0]
        /\ UNCHANGED <<session, token, req, accepted, overlap>>
    BY <1>6 DEF Challenge
  <2>2. user[u] \in UserRow
    BY <1>2
  <2>3. /\ user' = [v \in User |-> user'[v]] /\ \A v \in User \ {u} : user'[v] = user[v]
        /\ user'[u] = [user[u] EXCEPT !.failed = 0]
    BY <1>2, <2>1, <2>2
  <2>4. user'[u] \in UserRow
    BY <2>2, <2>3 DEF UserRow
  <2>5. user'[u].exists
    BY <2>1, <2>2, <2>3 DEF UserRow
  <2>6. user'[u].codes = user[u].codes /\ user'[u].sets = user[u].sets
    BY <2>2, <2>3 DEF UserRow
  <2> QED
    BY <1>3, <2>1, <2>3, <2>4, <2>5, <2>6 DEF Quiet
<1> QED
  BY <1>4, <1>5, <1>6

-----------------------------------------------------------------------------
(* The steps of Desk, as Identity sees them *)

\* A request of Desk ends the worker's business with Identity or leaves it alone.
LEMMA DeskLeavesRows ==
    ASSUME RowsOK, NEW w \in Worker,
           DeskFlush(w) \/ DeskRollback(w) \/ Admin(w) \/ Analyst(w) \/ Copilot(w)
    PROVE  RowsOK' /\ Lasting /\ Quiet(w)
<1> DEFINE Calm == /\ UNCHANGED <<user, session, token, accepted, overlap>>
                   /\ \/ req' = req \/ req' = [req EXCEPT ![w] = Idle]
                      \/ req' = [req EXCEPT ![w] = Busy]
<1>1. ASSUME DeskFlush(w) \/ DeskRollback(w) PROVE Calm
  BY <1>1 DEF DeskFlush, DeskRollback
<1>2. ASSUME Admin(w) PROVE Calm
  <2>1. ASSUME NEW k \in Key, KeyRead(w, k) \/ IssueRead(w, k) \/ RevokeRead(w, k)
        PROVE  Calm
    BY <2>1 DEF KeyRead, IssueRead, RevokeRead, ApiRoute
  <2>2. ASSUME Anonymous(w) \/ KeyCommit(w) \/ IssueCommit(w) \/ RevokeCommit(w)
        PROVE  Calm
    BY <2>2 DEF Anonymous, KeyCommit, IssueCommit, RevokeCommit, Done
  <2> QED
    BY <1>2, <2>1, <2>2 DEF Admin
<1>3. ASSUME Analyst(w) PROVE Calm
  <2>1. ASSUME NEW a \in Alert, TriageRead(w, a) \/ NoteRead(w, a) \/ McpMark(w, a)
        PROVE  Calm
    BY <2>1, Zenon DEF TriageRead, NoteRead, McpMark, ApiRoute
  <2>2. ASSUME NEW n \in BrandName, BrandRead(w, n) PROVE Calm
    BY <2>2 DEF BrandRead, ApiRoute
  <2>3. ASSUME \/ TriageCommit(w) \/ NoteCommit(w) \/ McpCommit(w) \/ BrandCommit(w)
               \/ PrefRead(w) \/ PrefCommit(w)
        PROVE  Calm
    BY <2>3, Zenon DEF TriageCommit, NoteCommit, McpCommit, BrandCommit, PrefRead, PrefCommit, Done
  <2> QED
    BY <1>3, <2>1, <2>2, <2>3 DEF Analyst
<1>4. ASSUME Copilot(w) PROVE Calm
  <2>1. ASSUME NEW a \in Alert, AgentMarks(w, a) PROVE Calm
    BY <2>1 DEF AgentMarks
  <2>2. ASSUME NEW act \in BOOLEAN, CopilotAsk(w, act) PROVE Calm
    BY <2>2 DEF CopilotAsk
  <2>3. ASSUME AgentReads(w) \/ AgentCommit(w) \/ AgentEnds(w)
        PROVE  Calm
    BY <2>3 DEF AgentReads, AgentCommit, AgentEnds
  <2> QED
    BY <1>4, <2>1, <2>2, <2>3 DEF Copilot
<1>5. Calm
  BY <1>1, <1>2, <1>3, <1>4
<1>6. /\ ReqOK(Idle, Real', Len(session')) /\ Idle.pc \notin {"read", "flushed"}
      /\ ReqOK(Busy, Real', Len(session')) /\ Busy.pc \notin {"read", "flushed"}
  BY DEF ReqOK, Idle, Busy
<1>7. token' \subseteq token
  BY <1>5
<1> QED
  BY <1>5, <1>6, <1>7, PlainKeepsRows

-----------------------------------------------------------------------------
(* Every step: the rows stay sound, and four kinds of steps matter to codes *)

LEMMA ExpiryKeepsRows ==
    ASSUME RowsOK, NEW u \in User, ExpireToken(u)
    PROVE  RowsOK' /\ Lasting /\ UNCHANGED <<user, req, accepted, overlap>>
<1>1. UNCHANGED <<user, session, req, accepted, overlap>> /\ token' \subseteq token
  BY DEF ExpireToken
<1>2. Real' = Real
  BY <1>1 DEF Real
<1>3. (\A w \in Worker : ReqOK(req[w], Real, Len(session)))'
  BY <1>1, <1>2 DEF RowsOK
<1>4. (\A i \in 1..Len(session) : session[i].user \in Real)'
  BY <1>1, <1>2 DEF RowsOK
<1> QED
  BY <1>1, <1>2, <1>3, <1>4 DEF RowsOK, Lasting

LEMMA StepKeepsRows ==
    ASSUME RowsOK, [DeskNext]_vars
    PROVE  /\ RowsOK' /\ Lasting
           /\ \/ UNCHANGED <<user, req, accepted, overlap>>
              \/ \E w \in Worker : \/ Quiet(w) \/ RecoverCommit(w) \/ ConfirmCommit(w)
                                   \/ \E op : Reads_(w, op) /\ Sound(op)
<1> DEFINE Kind(w) == \/ Quiet(w) \/ RecoverCommit(w) \/ ConfirmCommit(w)
                      \/ \E op : Reads_(w, op) /\ Sound(op)
<1>1. ASSUME UNCHANGED vars
      PROVE  RowsOK' /\ Lasting /\ UNCHANGED <<user, req, accepted, overlap>>
  <2>1. UNCHANGED <<user, session, token, req, accepted, overlap>>
    BY <1>1 DEF vars, idVars
  <2>2. Real' = Real
    BY <2>1 DEF Real
  <2>3. (\A w \in Worker : ReqOK(req[w], Real, Len(session)))'
    BY <2>1, <2>2 DEF RowsOK
  <2>4. (\A i \in 1..Len(session) : session[i].user \in Real)'
    BY <2>1, <2>2 DEF RowsOK
  <2> QED
    BY <2>1, <2>2, <2>3, <2>4 DEF RowsOK, Lasting
<1>2. ASSUME NEW w \in Worker,
             DeskFlush(w) \/ DeskRollback(w) \/ Admin(w) \/ Analyst(w) \/ Copilot(w)
      PROVE  RowsOK' /\ Lasting /\ Kind(w)
  BY <1>2, DeskLeavesRows
<1>3. ASSUME NEW w \in Worker, NEW u \in User,
             \/ SignupBegin(w, u) \/ Challenge(w, u) \/ VerifyTotp(w, u)
             \/ Bearer(w, u) \/ OidcRead(w, u)
             \/ \E good \in BOOLEAN : LoginRead(w, u, good)
             \/ \E c \in Code : VerifyRecovery(w, u, c)
      PROVE  RowsOK' /\ Lasting /\ Kind(w)
  <2>1. CASE Challenge(w, u)
    <3>1. ~ConfirmCommit(w) \/ ConfirmCommit(w)
      OBVIOUS
    <3> QED
      BY <2>1, FactorKeepsRows
  <2>2. CASE Bearer(w, u)
    BY <2>2, OthersKeepRows
  <2>3. CASE \/ SignupBegin(w, u) \/ VerifyTotp(w, u) \/ OidcRead(w, u)
             \/ \E good \in BOOLEAN : LoginRead(w, u, good)
             \/ \E c \in Code : VerifyRecovery(w, u, c)
    <3>1. PICK op : Reads_(w, op) /\ Sound(op)
      BY <2>3, ReadersAreSound
    <3> QED
      BY <3>1, ReadKeepsRows
  <2> QED
    BY <1>3, <2>1, <2>2, <2>3
<1>4. ASSUME NEW w \in Worker, NEW i \in 1..MaxSessions, CookieRead(w, i) \/ LogoutRead(w, i)
      PROVE  RowsOK' /\ Lasting /\ Kind(w)
  <2>1. PICK op : Reads_(w, op) /\ Sound(op)
    BY <1>4, ReadersAreSound
  <2> QED
    BY <2>1, ReadKeepsRows
<1>5. ASSUME NEW w \in Worker,
             \/ Flush(w) \/ Rollback(w) \/ EnrolRead(w) \/ ConfirmRead(w)
             \/ SignupCommit(w) \/ RefuseLogin(w) \/ LoginCommit(w) \/ TotpCommit(w)
             \/ RecoverCommit(w) \/ CookieCommit(w) \/ LogoutCommit(w)
             \/ EnrolCommit(w) \/ ConfirmCommit(w) \/ OidcCommit(w)
      PROVE  RowsOK' /\ Lasting /\ Kind(w)
  <2>1. CASE EnrolRead(w) \/ ConfirmRead(w)
    <3>1. PICK op : Reads_(w, op) /\ Sound(op)
      BY <2>1, ReadersAreSound
    <3> QED
      BY <3>1, ReadKeepsRows
  <2>2. CASE \/ SignupCommit(w) \/ LoginCommit(w) \/ TotpCommit(w) \/ OidcCommit(w)
             \/ RecoverCommit(w)
    BY <2>2, LoginKeepsRows
  <2>3. CASE \/ Flush(w) \/ Rollback(w) \/ RefuseLogin(w) \/ CookieCommit(w) \/ LogoutCommit(w)
    BY <2>3, OthersKeepRows
  <2>4. CASE EnrolCommit(w) \/ ConfirmCommit(w)
    BY <2>4, FactorKeepsRows
  <2> QED
    BY <1>5, <2>1, <2>2, <2>3, <2>4
<1>6. ASSUME NEW u \in User, ExpireToken(u)
      PROVE  RowsOK' /\ Lasting /\ UNCHANGED <<user, req, accepted, overlap>>
  BY <1>6, ExpiryKeepsRows
<1> HIDE DEF Kind
<1>7. CASE IdNext
  BY <1>3, <1>4, <1>5, <1>6, <1>7 DEF IdNext, Kind
<1>8. CASE \E w \in Worker : DeskFlush(w) \/ DeskRollback(w) \/ Admin(w) \/ Analyst(w) \/ Copilot(w)
  BY <1>2, <1>8 DEF Kind
<1> QED
  BY <1>1, <1>7, <1>8 DEF DeskNext

LEMMA InitHasRows == ASSUME DeskInit PROVE RowsOK
<1>1. /\ user \in [User -> {NoUser} \cup {Seeded(r, mfa) : r \in SeedRole, mfa \in BOOLEAN}]
      /\ session = <<>> /\ token = {} /\ req = [w \in Worker |-> Idle]
  BY DEF DeskInit, IdInit
<1>2. NoUser \in UserRow /\ NoUser.codes = {} /\ NoUser.sets = 0
  BY DEF NoUser, NewUser, UserRow, Role
<1>3. ASSUME NEW r \in SeedRole
      PROVE  /\ Seeded(r, TRUE) \in UserRow /\ Seeded(r, TRUE).exists
             /\ Seeded(r, FALSE) \in UserRow /\ Seeded(r, FALSE).exists
  <2>1. r \in Role
    BY SeedAssumption
  <2>2. CodeSet(1) \in SUBSET AnyCode
    BY DEF CodeSet, AnyCode
  <2> HIDE DEF AnyCode
  <2>3. /\ NewUser(TRUE, FALSE) \in UserRow /\ NewUser(TRUE, FALSE).exists
    BY DEF NewUser, UserRow, Role
  <2> DEFINE with(mfa, n, codes) == [NewUser(TRUE, FALSE) EXCEPT !.role = r, !.mfa = mfa,
                                        !.secret = n, !.sets = n, !.codes = codes]
  <2>4. /\ with(TRUE, 1, CodeSet(1)) \in UserRow /\ with(FALSE, 0, {}) \in UserRow
        /\ with(TRUE, 1, CodeSet(1)).exists /\ with(FALSE, 0, {}).exists
    BY <2>1, <2>2 DEF NewUser, UserRow
  <2>5. Seeded(r, TRUE) = with(TRUE, 1, CodeSet(1)) /\ Seeded(r, FALSE) = with(FALSE, 0, {})
    BY DEF Seeded
  <2> QED
    BY <2>4, <2>5
<1>7. ASSUME NEW u \in User
      PROVE  \/ user[u] = NoUser
             \/ \E r \in SeedRole : user[u] = Seeded(r, TRUE) \/ user[u] = Seeded(r, FALSE)
  <2>1. user[u] \in {NoUser} \cup {Seeded(r, mfa) : r \in SeedRole, mfa \in BOOLEAN}
    BY <1>1
  <2>2. CASE user[u] # NoUser
    <3>1. user[u] \in {Seeded(r, mfa) : r \in SeedRole, mfa \in BOOLEAN}
      BY <2>1, <2>2
    <3>2. PICK r \in SeedRole, mfa \in BOOLEAN : user[u] = Seeded(r, mfa)
      BY <3>1
    <3>3. CASE mfa = TRUE
      BY <3>2, <3>3
    <3>4. CASE mfa = FALSE
      BY <3>2, <3>4
    <3> QED
      BY <3>3, <3>4
  <2> QED
    BY <2>2
<1>8. user = [u \in User |-> user[u]]
  BY <1>1
<1>4. user \in [User -> UserRow]
  BY <1>2, <1>3, <1>7, <1>8
<1>5. ASSUME NEW u \in User, ~user[u].exists PROVE user[u].codes = {} /\ user[u].sets = 0
  <2>1. ASSUME NEW r \in SeedRole PROVE user[u] # Seeded(r, TRUE) /\ user[u] # Seeded(r, FALSE)
    BY <1>3, <1>5, Zenon
  <2> QED
    BY <1>2, <1>7, <2>1
<1>6. req = [w \in Worker |-> req[w]] /\ \A w \in Worker : ReqOK(req[w], Real, Len(session))
  BY <1>1 DEF ReqOK, Idle
<1> QED
  BY <1>1, <1>4, <1>5, <1>6 DEF RowsOK

LEMMA RowsInvariant == DeskSpec => []RowsOK
<1>1. RowsOK /\ [DeskNext]_vars => RowsOK'
  BY StepKeepsRows
<1> QED
  BY <1>1, InitHasRows, PTL DEF DeskSpec

-----------------------------------------------------------------------------
(* Recovery codes of users about whose codes no two requests overlapped *)

\* what is known of one user's codes: those that were used are used once and not
\* on the list, and one request at most is about to change the list it has read
CodesOK(u) ==
    /\ \A c \in user[u].codes : c[1] <= user[u].sets
    /\ \A n \in DOMAIN accepted[u] :
          accepted[u][n] \notin user[u].codes /\ accepted[u][n][1] <= user[u].sets
    /\ \A n, k \in DOMAIN accepted[u] : accepted[u][n] = accepted[u][k] => n = k
    /\ \A v, w \in Worker : AboutCodes(v, u) /\ AboutCodes(w, u) => v = w
    /\ \A w \in Worker : AboutCodes(w, u) /\ req[w].op.kind = "recover" =>
          /\ req[w].op.code \in user[u].codes
          /\ req[w].op.left = user[u].codes \ {req[w].op.code}
SpentInv ==
    /\ accepted \in [User -> Seq(AnyCode)]
    /\ \A u \in User \ overlap : CodesOK(u)

\* A step that changes neither the user's codes nor begins to.
LEMMA CodesStay ==
    ASSUME NEW u \in User, CodesOK(u), accepted'[u] = accepted[u],
           user'[u].codes = user[u].codes, user'[u].sets = user[u].sets,
           \A w \in Worker : AboutCodes(w, u)' => AboutCodes(w, u) /\ req'[w].op = req[w].op
    PROVE  CodesOK(u)'
<1> USE DEF CodesOK
<1>1. (\A v, w \in Worker : AboutCodes(v, u) /\ AboutCodes(w, u) => v = w)'
  <2>1. \A v, w \in Worker : AboutCodes(v, u)' /\ AboutCodes(w, u)' => v = w
    OBVIOUS
  <2> QED
    BY <2>1
<1>2. ASSUME NEW w \in Worker, AboutCodes(w, u)', req'[w].op.kind = "recover"
      PROVE  /\ req'[w].op.code \in user'[u].codes
             /\ req'[w].op.left = user'[u].codes \ {req'[w].op.code}
  BY <1>2
<1> QED
  BY <1>1, <1>2

\* A request that does not concern the codes of anybody.
LEMMA QuietKeepsCodes ==
    ASSUME SpentInv, NEW w \in Worker, Quiet(w)
    PROVE  SpentInv'
<1>1. ASSUME NEW u \in User \ overlap PROVE CodesOK(u)'
  <2>1. ASSUME NEW v \in Worker, AboutCodes(v, u)'
        PROVE  AboutCodes(v, u) /\ req'[v].op = req[v].op
    BY <2>1 DEF Quiet, AboutCodes
  <2> QED
    BY <2>1, CodesStay DEF SpentInv, Quiet
<1> QED
  BY <1>1 DEF SpentInv, Quiet

\* A request that reads: if it concerns the codes of a user, it is the only one.
LEMMA ReadKeepsCodes ==
    ASSUME RowsOK, SpentInv, NEW w \in Worker, NEW op, Reads_(w, op), Sound(op)
    PROVE  SpentInv'
<1>1. /\ UNCHANGED <<user, accepted>> /\ overlap \subseteq overlap'
      /\ \A u \in User : op.kind \in {"recover", "confirm"} /\ op.user = u
            /\ (\E v \in Worker \ {w} : AboutCodes(v, u)) => u \in overlap'
  BY DEF Reads_
<1>2. req'[w] = [pc |-> "read", op |-> op] /\ \A v \in Worker \ {w} : req'[v] = req[v]
  BY DEF Reads_, RowsOK
<1>3. req'[w].pc = "read" /\ req'[w].op = op
  BY <1>2
<1>4. ASSUME NEW u \in User \ overlap' PROVE CodesOK(u)'
  <2>1. CodesOK(u)
    BY <1>1 DEF SpentInv
  <2>2. \A v \in Worker \ {w} : /\ AboutCodes(v, u)' <=> AboutCodes(v, u)
                                /\ req'[v].op = req[v].op
    BY <1>2 DEF AboutCodes
  <2>3. AboutCodes(w, u)' <=> op.kind \in {"recover", "confirm"} /\ op.user = u
    BY <1>3 DEF AboutCodes
  <2>4. CASE ~(op.kind \in {"recover", "confirm"} /\ op.user = u)
    BY <1>1, <2>1, <2>2, <2>3, <2>4, CodesStay
  <2>5. CASE op.kind \in {"recover", "confirm"} /\ op.user = u
    <3>1. \A v \in Worker \ {w} : ~AboutCodes(v, u)
      BY <1>1, <2>5
    <3>2. \A v \in Worker : AboutCodes(v, u)' => v = w
      BY <2>2, <3>1
    <3>3. op.kind = "recover" => /\ op.code \in user[u].codes
                                 /\ op.left = user[u].codes \ {op.code}
      BY <2>5 DEF Sound
    <3>4. (\A v, x \in Worker : AboutCodes(v, u) /\ AboutCodes(x, u) => v = x)'
      BY <3>2
    <3>5. ASSUME NEW v \in Worker, AboutCodes(v, u)', req'[v].op.kind = "recover"
          PROVE  /\ req'[v].op.code \in user'[u].codes
                 /\ req'[v].op.left = user'[u].codes \ {req'[v].op.code}
      BY <1>1, <1>3, <3>2, <3>3, <3>5
    <3> QED
      BY <1>1, <2>1, <3>4, <3>5 DEF CodesOK
  <2> QED
    BY <2>4, <2>5
<1> QED
  BY <1>1, <1>4 DEF SpentInv

\* A code that is accepted leaves the list it was on.
LEMMA RecoverKeepsCodes ==
    ASSUME RowsOK, SpentInv, NEW w \in Worker, RecoverCommit(w)
    PROVE  SpentInv'
<1>11. req[w].op.user \in User
  BY WritersAreSound DEF RecoverCommit, Doing, OpOK, Real
<1>12. PICK o \in User : o = req[w].op.user
  BY <1>11
<1> DEFINE code == req[w].op.code
           left == req[w].op.left
<1>1. /\ req[w].pc = "flushed" /\ req[w].op.kind = "recover"
      /\ user' = [user EXCEPT ![o].codes = left]
      /\ accepted' = [accepted EXCEPT ![o] = Append(accepted[o], code)]
      /\ req' = [req EXCEPT ![w] = Idle] /\ UNCHANGED overlap
  BY <1>12 DEF RecoverCommit, Doing, Commits
<1>2. o \in User /\ code \in AnyCode /\ AboutCodes(w, o)
  BY <1>1, <1>12, WritersAreSound DEF OpOK, Real, AboutCodes
<1>3. user[o] \in UserRow /\ accepted[o] \in Seq(AnyCode)
  BY <1>2 DEF RowsOK, SpentInv
<1>4. /\ user'[o].codes = left /\ user'[o].sets = user[o].sets
      /\ \A u \in User \ {o} : user'[u] = user[u]
  <2>1. user'[o] = [user[o] EXCEPT !.codes = left] /\ \A u \in User \ {o} : user'[u] = user[u]
    BY <1>1, <1>2 DEF RowsOK
  <2> QED
    BY <1>3, <2>1 DEF UserRow
<1>5. /\ \A v \in Worker \ {w} : req'[v] = req[v]
      /\ req'[w].pc \notin {"read", "flushed"}
  BY <1>1 DEF RowsOK, Idle
<1>6. accepted'[o] = Append(accepted[o], code) /\ \A u \in User \ {o} : accepted'[u] = accepted[u]
  BY <1>1, <1>2 DEF SpentInv
<1>7. \A u \in User, v \in Worker : AboutCodes(v, u)' =>
         AboutCodes(v, u) /\ v # w /\ req'[v].op = req[v].op
  BY <1>5 DEF AboutCodes
<1>8. ASSUME NEW u \in User \ overlap', u # o PROVE CodesOK(u)'
  BY <1>1, <1>4, <1>6, <1>7, <1>8, CodesStay DEF SpentInv
<1>9. ASSUME o \notin overlap' PROVE CodesOK(o)'
  <2>1. CodesOK(o)
    BY <1>1, <1>2, <1>9 DEF SpentInv
  <2>2. code \in user[o].codes /\ left = user[o].codes \ {code}
    BY <1>1, <1>2, <2>1 DEF CodesOK
  <2>3. \A v \in Worker : ~AboutCodes(v, o)'
    BY <1>2, <1>7, <2>1 DEF CodesOK
  <2> DEFINE old == accepted[o]
             new == accepted'[o]
  <2>4. /\ DOMAIN new = 1..(Len(old) + 1) /\ DOMAIN old = 1..Len(old) /\ Len(old) \in Nat
        /\ new[Len(old) + 1] = code /\ \A n \in 1..Len(old) : new[n] = old[n]
    BY <1>2, <1>3, <1>6
  <2>5. \A n \in DOMAIN old : old[n] \notin user[o].codes /\ old[n][1] <= user[o].sets
    BY <2>1 DEF CodesOK
  <2>6. code[1] <= user[o].sets
    BY <2>1, <2>2 DEF CodesOK
  <2>7. \A n, k \in DOMAIN old : old[n] = old[k] => n = k
    BY <2>1 DEF CodesOK
  <2> HIDE DEF old, new, code, left
  <2>8. \A n \in DOMAIN new : n \in DOMAIN old \/ n = Len(old) + 1
    BY <2>4
  <2>9. \A n \in DOMAIN new : new[n] \notin left /\ new[n][1] <= user[o].sets
    BY <2>2, <2>4, <2>5, <2>6, <2>8
  <2>10. \A n, k \in DOMAIN new : new[n] = new[k] => n = k
    BY <2>2, <2>4, <2>5, <2>7, <2>8
  <2>11. \A c \in left : c[1] <= user[o].sets
    BY <2>1, <2>2 DEF CodesOK
  <2> QED
    BY <1>4, <2>3, <2>9, <2>10, <2>11 DEF new, CodesOK
<1>10. accepted' \in [User -> Seq(AnyCode)]
  <2>1. Append(accepted[o], code) \in Seq(AnyCode)
    BY <1>2, <1>3
  <2> QED
    BY <1>1, <2>1 DEF SpentInv
<1> QED
  BY <1>2, <1>8, <1>9, <1>10 DEF SpentInv

\* A new set of codes has no code of an earlier set.
LEMMA ConfirmKeepsCodes ==
    ASSUME RowsOK, SpentInv, NEW w \in Worker, ConfirmCommit(w)
    PROVE  SpentInv'
<1>11. req[w].op.user \in User
  BY WritersAreSound, SMTT(30) DEF ConfirmCommit, Doing, OpOK, Real
<1>12. PICK o \in User : o = req[w].op.user
  BY <1>11
<1> DEFINE n == user[o].sets + 1
           codes == CodeSet(n)
<1>1. /\ req[w].pc = "flushed" /\ req[w].op.kind = "confirm"
      /\ user' = [user EXCEPT ![o].mfa = TRUE, ![o].sets = @ + 1, ![o].codes = codes]
      /\ req' = [req EXCEPT ![w] = Idle] /\ UNCHANGED <<overlap, accepted>>
  BY <1>12, SMTT(30) DEF ConfirmCommit, Doing, Commits
<1>2. o \in User /\ AboutCodes(w, o)
  BY <1>1, <1>12 DEF OpOK, Real, AboutCodes
<1>3. user[o] \in UserRow
  BY <1>2 DEF RowsOK
<1>4. user[o].sets \in Nat
  BY <1>3 DEF UserRow
<1>5. \A c \in codes : c[1] = n
  BY DEF CodeSet
<1> HIDE DEF codes
<1>6. /\ user'[o].codes = codes /\ user'[o].sets = user[o].sets + 1
      /\ \A u \in User \ {o} : user'[u] = user[u]
  <2>1. /\ user'[o] = [[[user[o] EXCEPT !.mfa = TRUE] EXCEPT !.sets = user[o].sets + 1]
                       EXCEPT !.codes = codes]
        /\ \A u \in User \ {o} : user'[u] = user[u]
    BY <1>1, <1>2, <1>3 DEF RowsOK, UserRow
  <2> QED
    BY <1>3, <2>1 DEF UserRow
<1>7. /\ \A v \in Worker \ {w} : req'[v] = req[v]
      /\ req'[w].pc \notin {"read", "flushed"}
  BY <1>1 DEF RowsOK, Idle
<1>8. \A u \in User, v \in Worker : AboutCodes(v, u)' =>
         AboutCodes(v, u) /\ v # w /\ req'[v].op = req[v].op
  BY <1>7 DEF AboutCodes
<1>9. ASSUME NEW u \in User \ overlap', u # o PROVE CodesOK(u)'
  BY <1>1, <1>6, <1>8, <1>9, CodesStay DEF SpentInv
<1>10. ASSUME o \notin overlap' PROVE CodesOK(o)'
  <2>1. CodesOK(o)
    BY <1>1, <1>2, <1>10 DEF SpentInv
  <2>2. \A v \in Worker : ~AboutCodes(v, o)'
    BY <1>2, <1>8, <2>1 DEF CodesOK
  <2>3. accepted[o] \in Seq(AnyCode)
    BY <1>2 DEF SpentInv
  <2>4. \A k \in DOMAIN accepted[o] : accepted[o][k] \in AnyCode /\ accepted[o][k][1] \in Nat
    BY <2>3 DEF AnyCode
  <2>5. \A k \in DOMAIN accepted[o] : accepted[o][k][1] <= user[o].sets
    BY <2>1 DEF CodesOK
  <2>6. \A k \in DOMAIN accepted[o] :
          accepted[o][k] \notin codes /\ accepted[o][k][1] <= user[o].sets + 1
    BY <1>4, <1>5, <2>4, <2>5
  <2>7. \A c \in codes : c[1] <= user[o].sets + 1
    BY <1>4, <1>5
  <2>8. \A k, m \in DOMAIN accepted[o] : accepted[o][k] = accepted[o][m] => k = m
    BY <2>1 DEF CodesOK
  <2> QED
    BY <1>1, <1>6, <2>2, <2>6, <2>7, <2>8 DEF CodesOK
<1> QED
  BY <1>1, <1>2, <1>9, <1>10, SMTT(30) DEF SpentInv

LEMMA InitHasCodes == ASSUME DeskInit PROVE SpentInv
<1>1. \A u \in User : accepted[u] = <<>>
  BY DEF DeskInit, IdInit
<1>2. accepted \in [User -> Seq(AnyCode)]
  BY DEF DeskInit, IdInit
<1>3. \A u \in User, w \in Worker : ~AboutCodes(w, u)
  BY DEF DeskInit, IdInit, AboutCodes, Idle
<1>4. ASSUME NEW u \in User, NEW c \in user[u].codes PROVE c[1] <= user[u].sets
  <2>1. user[u] \in {NoUser} \cup {Seeded(r, mfa) : r \in SeedRole, mfa \in BOOLEAN}
    BY DEF DeskInit, IdInit
  <2>2. user[u] # NoUser
    BY <1>4 DEF NoUser, NewUser
  <2>3. user[u] \in {Seeded(r, mfa) : r \in SeedRole, mfa \in BOOLEAN}
    BY <2>1, <2>2
  <2>4. PICK r \in SeedRole, mfa \in BOOLEAN : user[u] = Seeded(r, mfa)
    BY <2>3
  <2>5. CASE mfa = TRUE
    <3>1. user[u].codes = CodeSet(1) /\ user[u].sets = 1
      BY <2>4, <2>5 DEF Seeded, NewUser
    <3> QED
      BY <1>4, <3>1 DEF CodeSet
  <2>6. CASE mfa = FALSE
    <3>1. user[u].codes = {}
      BY <2>4, <2>6 DEF Seeded, NewUser
    <3> QED
      BY <1>4, <3>1
  <2> QED
    BY <2>5, <2>6
<1> QED
  BY <1>1, <1>2, <1>3, <1>4 DEF SpentInv, CodesOK

\* However requests interleave, a recovery code that completed a login is in no
\* later list of its user and completes no second login, unless two requests
\* about that user's codes had both read the list before either stored it.
THEOREM SpentForGood == DeskSpec => []SpentStaysSpent
<1>1. ASSUME RowsOK, SpentInv, [DeskNext]_vars PROVE SpentInv'
  <2>1. CASE UNCHANGED <<user, req, accepted, overlap>>
    BY <1>1, <2>1 DEF SpentInv, CodesOK, AboutCodes
  <2>2. ASSUME NEW w \in Worker, \/ Quiet(w) \/ RecoverCommit(w) \/ ConfirmCommit(w)
                                 \/ \E op : Reads_(w, op) /\ Sound(op)
        PROVE  SpentInv'
    BY <1>1, <2>2, QuietKeepsCodes, ReadKeepsCodes, RecoverKeepsCodes, ConfirmKeepsCodes
  <2> QED
    BY <1>1, <2>1, <2>2, StepKeepsRows
<1>2. RowsOK /\ SpentInv /\ [DeskNext]_vars => SpentInv'
  BY <1>1
<1>3. SpentInv => SpentStaysSpent
  BY DEF SpentInv, CodesOK, SpentStaysSpent
<1> QED
  BY <1>2, <1>3, InitHasCodes, RowsInvariant, PTL DEF DeskSpec

-----------------------------------------------------------------------------
(* Revocation *)

\* a row of api_keys has the columns it was issued with
KeysOK ==
    /\ key = [k \in Key |-> key[k]]
    /\ \A k \in Key :
          \/ key[k] = [state |-> key[k].state]
          \/ key[k] = [state |-> key[k].state, tenant |-> key[k].tenant,
                       scopes |-> key[k].scopes]

\* Only issuing and revoking a key writes what is of account in its row.
LEMMA KeyWriters ==
    ASSUME [DeskNext]_vars
    PROVE  UNCHANGED key \/ \E w \in Worker : IssueCommit(w) \/ RevokeCommit(w)
<1>1. CASE UNCHANGED vars \/ (IdNext /\ UNCHANGED deskVars)
  BY <1>1 DEF vars, deskVars
<1>2. ASSUME NEW w \in Worker, DeskFlush(w) \/ DeskRollback(w)
      PROVE  UNCHANGED key
  BY <1>2 DEF DeskFlush, DeskRollback
<1>3. ASSUME NEW w \in Worker, Admin(w)
      PROVE  UNCHANGED key \/ IssueCommit(w) \/ RevokeCommit(w)
  <2>1. ASSUME NEW k \in Key, KeyRead(w, k) \/ IssueRead(w, k) \/ RevokeRead(w, k)
        PROVE  UNCHANGED key
    BY <2>1 DEF KeyRead, IssueRead, RevokeRead, ApiRoute, Calls
  <2>2. ASSUME Anonymous(w) \/ KeyCommit(w) PROVE UNCHANGED key
    BY <2>2 DEF Anonymous, KeyCommit
  <2> QED
    BY <1>3, <2>1, <2>2 DEF Admin
<1>4. ASSUME NEW w \in Worker, Analyst(w) PROVE UNCHANGED key
  <2>1. ASSUME NEW a \in Alert, TriageRead(w, a) \/ NoteRead(w, a) \/ McpMark(w, a)
        PROVE  UNCHANGED key
    BY <2>1, Zenon DEF TriageRead, NoteRead, McpMark, Mark, ApiRoute, Calls
  <2>2. ASSUME NEW n \in BrandName, BrandRead(w, n) PROVE UNCHANGED key
    BY <2>2 DEF BrandRead, ApiRoute, Calls
  <2>3. ASSUME \/ TriageCommit(w) \/ NoteCommit(w) \/ McpCommit(w) \/ BrandCommit(w)
               \/ PrefRead(w) \/ PrefCommit(w)
        PROVE  UNCHANGED key
    BY <2>3, Zenon DEF TriageCommit, NoteCommit, McpCommit, BrandCommit, PrefRead, PrefCommit, Calls
  <2> QED
    BY <1>4, <2>1, <2>2, <2>3 DEF Analyst
<1>5. ASSUME NEW w \in Worker, Copilot(w) PROVE UNCHANGED key
  <2>1. ASSUME NEW a \in Alert, AgentMarks(w, a) PROVE UNCHANGED key
    BY <2>1 DEF AgentMarks, Mark, Calls
  <2>2. ASSUME NEW act \in BOOLEAN, CopilotAsk(w, act) PROVE UNCHANGED key
    BY <2>2 DEF CopilotAsk
  <2>3. ASSUME AgentReads(w) \/ AgentCommit(w) \/ AgentEnds(w)
        PROVE  UNCHANGED key
    BY <2>3 DEF AgentReads, AgentCommit, AgentEnds
  <2> QED
    BY <1>5, <2>1, <2>2, <2>3 DEF Copilot
<1> QED
  BY <1>1, <1>2, <1>3, <1>4, <1>5 DEF DeskNext

\* A revoked key is not written in any way that could be seen.
LEMMA KeysStayRevoked ==
    ASSUME KeysOK, [DeskNext]_vars
    PROVE  KeysOK' /\ \A k \in Key : key[k].state = "revoked" => key'[k] = key[k]
<1>1. CASE UNCHANGED key
  BY <1>1 DEF KeysOK
<1>2. ASSUME NEW w \in Worker, IssueCommit(w)
      PROVE  KeysOK' /\ \A k \in Key : key[k].state = "revoked" => key'[k] = key[k]
  <2> DEFINE row == [state |-> "active", tenant |-> desk[w].op.tenant,
                     scopes |-> desk[w].op.scopes]
  <2>1. key[desk[w].op.key].state = "absent" /\ key' = [key EXCEPT ![desk[w].op.key] = row]
    BY <1>2 DEF IssueCommit
  <2>2. row = [state |-> row.state, tenant |-> row.tenant, scopes |-> row.scopes]
    OBVIOUS
  <2> HIDE DEF row
  <2>3. \A k \in Key : key'[k] = IF k = desk[w].op.key THEN row ELSE key[k]
    BY <2>1 DEF KeysOK
  <2>4. key' = [k \in Key |-> key'[k]]
    BY <2>1 DEF KeysOK
  <2> QED
    BY <2>1, <2>2, <2>3, <2>4 DEF KeysOK
<1>3. ASSUME NEW w \in Worker, RevokeCommit(w)
      PROVE  KeysOK' /\ \A k \in Key : key[k].state = "revoked" => key'[k] = key[k]
  <2>1. key' = [key EXCEPT ![desk[w].op.key].state = "revoked"]
    BY <1>3 DEF RevokeCommit
  <2>2. \A k \in Key : key'[k] = IF k = desk[w].op.key THEN [key[k] EXCEPT !.state = "revoked"]
                                 ELSE key[k]
    BY <2>1 DEF KeysOK
  <2>3. key' = [k \in Key |-> key'[k]]
    BY <2>1 DEF KeysOK
  <2>4. ASSUME NEW k \in Key
        PROVE  /\ \/ key'[k] = [state |-> key'[k].state]
                  \/ key'[k] = [state |-> key'[k].state, tenant |-> key'[k].tenant,
                                scopes |-> key'[k].scopes]
               /\ key[k].state = "revoked" => key'[k] = key[k]
    <3>1. CASE key[k] = [state |-> key[k].state]
      BY <2>2, <3>1
    <3>2. CASE key[k] = [state |-> key[k].state, tenant |-> key[k].tenant,
                         scopes |-> key[k].scopes]
      BY <2>2, <3>2
    <3> QED
      BY <3>1, <3>2 DEF KeysOK
  <2> QED
    BY <2>3, <2>4 DEF KeysOK
<1> QED
  BY <1>1, <1>2, <1>3, KeyWriters

LEMMA InitHasKeys == ASSUME DeskInit PROVE KeysOK
<1>1. key \in [Key -> {NoRow} \cup ActiveKey]
  BY DEF DeskInit
<1>2. ASSUME NEW k \in Key
      PROVE  \/ key[k] = [state |-> key[k].state]
             \/ key[k] = [state |-> key[k].state, tenant |-> key[k].tenant,
                          scopes |-> key[k].scopes]
  <2>1. key[k] = NoRow \/ key[k] \in ActiveKey
    BY <1>1
  <2> QED
    BY <2>1 DEF NoRow, ActiveKey
<1> QED
  BY <1>1, <1>2 DEF KeysOK

\* The requests that were loading a session or a key when it was revoked write
\* last_seen_at or last_used_at and no other column: revocation is final.
THEOREM RevocationIsFinal == DeskSpec => RevokedForGood
<1> DEFINE Final == /\ \A i \in DOMAIN session : session[i].revoked => session'[i].revoked
                    /\ \A k \in Key : key[k].state = "revoked" => key'[k] = key[k]
<1>1. ASSUME RowsOK, KeysOK, [DeskNext]_vars PROVE Final
  BY <1>1, StepKeepsRows, KeysStayRevoked DEF Lasting
<1>2. RowsOK /\ KeysOK /\ [DeskNext]_vars => [Final]_vars
  BY <1>1
<1>3. KeysOK /\ [DeskNext]_vars => KeysOK'
  BY KeysStayRevoked
<1>4. DeskSpec => []KeysOK
  BY <1>3, InitHasKeys, PTL DEF DeskSpec
<1>5. DeskSpec => [][Final]_vars
  BY <1>2, <1>4, RowsInvariant, PTL DEF DeskSpec
<1> QED
  BY <1>5 DEF RevokedForGood

-----------------------------------------------------------------------------
(* What two requests did not race about *)

Writing(w) == desk[w].pc \in {"read", "flushed"}
Concerns(w, x) == Writing(w) /\ x \in Subject(desk[w].op)

\* what a request has read is as it was, unless it was raced
CallOK(op) ==
    /\ op.kind \in {"triage", "mark"} =>
          op.alert \in Alert /\ (op.alert \in torn \/ op.loaded = alert[op.alert])
    /\ op.kind = "brand" =>
          op.name \in BrandName /\ (op.name \in torn \/ brand[op.name] = 0)
    /\ op.kind = "pref" =>
          op.user \in User /\ (op.user \in torn \/ (op.new <=> pref[op.user] = 0))

\* the calls a route may be serving; desk rows that have not written are calls
CallsOK ==
    /\ desk = [w \in Worker |-> desk[w]]
    /\ \A w \in Worker : desk[w].pc = "read" => desk[w] = [pc |-> "read", op |-> desk[w].op]
    /\ \A w \in Worker : Writing(w) => CallOK(desk[w].op)
    /\ \A x \in Alert \cup BrandName \cup User : x \in torn \/
          \A v, w \in Worker : Concerns(v, x) /\ Concerns(w, x) => v = w

\* the rows, and the last triage of each alert
Whole(a) ==
    /\ alert[a].status = last[a].status
    /\ alert[a].by = last[a].by
    /\ last[a].kind = "triage" => IsSuffix(Outcome(alert[a].status), fed[a])
DataOK ==
    /\ alert = [a \in Alert |-> alert[a]]
    /\ \A a \in Alert : {"status", "by"} \subseteq DOMAIN alert[a]
    /\ last = [a \in Alert |-> last[a]]
    /\ fed \in [Alert -> Seq({"true_positive", "false_positive"})]
    /\ brand \in [BrandName -> Nat] /\ pref \in [User -> Nat]
    /\ \A a \in Alert : a \in torn \/ Whole(a)
    /\ \A n \in BrandName : n \in torn \/ brand[n] <= 1
    /\ \A u \in User : u \in torn \/ pref[u] <= 1

LEMMA Subjects ==
    ASSUME NEW op
    PROVE  /\ op.kind \in {"triage", "mark"} => Subject(op) = {op.alert}
           /\ op.kind = "brand" => Subject(op) = {op.name}
           /\ op.kind = "pref" => Subject(op) = {op.user}
BY DEF Subject

\* the four kinds of steps
Rests(w) ==
    /\ UNCHANGED <<alert, brand, pref, fed, last, torn>>
    /\ desk' = [v \in Worker |-> desk'[v]]
    /\ \A v \in Worker \ {w} : desk'[v] = desk[v]
    /\ \/ desk'[w] = desk[w]
       \/ desk'[w].pc \notin {"read", "flushed"}
       \/ desk[w].pc = "read" /\ desk'[w].pc = "flushed" /\ desk'[w].op = desk[w].op
Triages(w) ==
    LET op == desk[w].op
    IN /\ desk[w].pc = "flushed" /\ op.kind \in {"triage", "mark"}
       /\ UpdateTriage(op)
       /\ fed' = IF op.kind = "triage" THEN [fed EXCEPT ![op.alert] = @ \o Outcome(op.status)]
                 ELSE fed
       /\ desk' = [desk EXCEPT ![w] = NoCall]
       /\ UNCHANGED <<brand, pref, torn>>
Kind(w) == \/ Rests(w) \/ Triages(w) \/ BrandCommit(w) \/ PrefCommit(w)
           \/ \E op : Calls(w, op) /\ CallOK(op)

LEMMA KindsOfSteps ==
    ASSUME RowsOK, CallsOK, [DeskNext]_vars
    PROVE  \/ UNCHANGED <<desk, alert, brand, pref, fed, last, torn>>
           \/ \E w \in Worker : Kind(w)
<1>1. CASE UNCHANGED vars \/ (IdNext /\ UNCHANGED deskVars)
  BY <1>1 DEF vars, deskVars
<1>2. ASSUME NEW w \in Worker, UNCHANGED <<alert, brand, pref, fed, last, torn>>,
             NEW r, desk' = desk \/ desk' = [desk EXCEPT ![w] = r],
             \/ r.pc \notin {"read", "flushed"}
             \/ desk[w].pc = "read" /\ r.pc = "flushed" /\ r.op = desk[w].op
      PROVE  Kind(w)
  <2>1. Rests(w)
    BY <1>2 DEF Rests, CallsOK
  <2> QED
    BY <2>1 DEF Kind
<1>3. NoCall.pc \notin {"read", "flushed"}
  BY DEF NoCall
<1>4. ASSUME NEW w \in Worker, DeskFlush(w) \/ DeskRollback(w) PROVE Kind(w)
  <2>1. CASE DeskFlush(w)
    <3> DEFINE r == [desk[w] EXCEPT !.pc = "flushed"]
    <3>1. /\ desk[w].pc = "read" /\ desk' = [desk EXCEPT ![w] = r]
          /\ UNCHANGED <<alert, brand, pref, fed, last, torn>>
      BY <2>1 DEF DeskFlush
    <3>2. desk[w] = [pc |-> "read", op |-> desk[w].op]
      BY <3>1 DEF CallsOK
    <3>3. r.pc = "flushed" /\ r.op = desk[w].op
      BY <3>2
    <3> HIDE DEF r
    <3> QED
      BY <1>2, <3>1, <3>3
  <2>2. CASE DeskRollback(w)
    <3>1. /\ desk' = [desk EXCEPT ![w] = NoCall]
          /\ UNCHANGED <<alert, brand, pref, fed, last, torn>>
      BY <2>2 DEF DeskRollback
    <3> QED
      BY <1>2, <1>3, <3>1
  <2> QED
    BY <1>4, <2>1, <2>2
<1>5. ASSUME NEW w \in Worker, NEW op, Calls(w, op), CallOK(op) PROVE Kind(w)
  BY <1>5 DEF Kind
<1>6. ASSUME NEW op, op.kind \notin {"triage", "mark", "brand", "pref"} PROVE CallOK(op)
  BY <1>6 DEF CallOK
<1>7. ASSUME NEW w \in Worker, Admin(w) PROVE Kind(w)
  <2>1. ASSUME NEW k \in Key, KeyRead(w, k) \/ IssueRead(w, k) \/ RevokeRead(w, k)
        PROVE  Kind(w)
    <3>1. PICK op : Calls(w, op) /\ op.kind \in {"key", "issue", "revoke"}
      <4>1. CASE KeyRead(w, k)
        BY <4>1 DEF KeyRead
      <4>2. CASE IssueRead(w, k)
        <5>1. PICK s, t : Calls(w, [kind |-> "issue", key |-> k, scopes |-> s, tenant |-> t])
          BY <4>2 DEF IssueRead, ApiRoute
        <5> QED
          BY <5>1
      <4>3. CASE RevokeRead(w, k)
        BY <4>3 DEF RevokeRead, ApiRoute
      <4> QED
        BY <2>1, <4>1, <4>2, <4>3
    <3> QED
      BY <1>5, <1>6, <3>1
  <2>2. ASSUME Anonymous(w) \/ KeyCommit(w) PROVE Kind(w)
    <3>1. PICK r : /\ desk' = [desk EXCEPT ![w] = r] /\ r.pc \notin {"read", "flushed"}
                   /\ UNCHANGED <<alert, brand, pref, fed, last, torn>>
      BY <2>2 DEF Anonymous, KeyCommit
    <3> QED
      BY <1>2, <3>1
  <2>3. ASSUME IssueCommit(w) \/ RevokeCommit(w) PROVE Kind(w)
    <3>1. /\ desk' = [desk EXCEPT ![w] = NoCall]
          /\ UNCHANGED <<alert, brand, pref, fed, last, torn>>
      BY <2>3 DEF IssueCommit, RevokeCommit, Done
    <3> QED
      BY <1>2, <1>3, <3>1
  <2> QED
    BY <1>7, <2>1, <2>2, <2>3 DEF Admin
<1>8. ASSUME NEW w \in Worker, NEW a \in Alert,
             TriageRead(w, a) \/ McpMark(w, a) \/ AgentMarks(w, a) \/ NoteRead(w, a)
      PROVE  Kind(w)
  <2>1. CASE NoteRead(w, a)
    <3>1. PICK op : Calls(w, op) /\ op.kind = "note"
      BY <2>1 DEF NoteRead, ApiRoute
    <3> QED
      BY <1>5, <1>6, <3>1
  <2>2. CASE TriageRead(w, a)
    <3>1. PICK op : Calls(w, op) /\ op.kind = "triage" /\ op.alert = a /\ op.loaded = alert[a]
      <4>1. PICK status, by : Calls(w, [kind |-> "triage", alert |-> a, status |-> status,
                                        loaded |-> alert[a], by |-> by])
        BY <2>2 DEF TriageRead, ApiRoute
      <4> QED
        BY <4>1
    <3>2. CallOK(op)
      BY <3>1 DEF CallOK
    <3> QED
      BY <1>5, <3>1, <3>2
  <2>3. CASE McpMark(w, a) \/ AgentMarks(w, a)
    <3>1. PICK op : Calls(w, op) /\ op.kind = "mark" /\ op.alert = a /\ op.loaded = alert[a]
      <4>1. Mark(w, a)
        BY <2>3 DEF McpMark, AgentMarks
      <4>2. PICK status, by : Calls(w, [kind |-> "mark", alert |-> a, status |-> status,
                                        loaded |-> alert[a], by |-> by])
        BY <4>1 DEF Mark
      <4> QED
        BY <4>2
    <3>2. CallOK(op)
      BY <3>1 DEF CallOK
    <3> QED
      BY <1>5, <3>1, <3>2
  <2> QED
    BY <1>8, <2>1, <2>2, <2>3
<1>9. ASSUME NEW w \in Worker, NEW n \in BrandName, BrandRead(w, n) PROVE Kind(w)
  <2>1. PICK op : Calls(w, op) /\ op.kind = "brand" /\ op.name = n /\ brand[n] = 0
    BY <1>9 DEF BrandRead, ApiRoute
  <2>2. CallOK(op)
    BY <2>1 DEF CallOK
  <2> QED
    BY <1>5, <2>1, <2>2
<1>10. ASSUME NEW w \in Worker, PrefRead(w) PROVE Kind(w)
  <2> DEFINE op == [kind |-> "pref", user |-> req[w].user, new |-> pref[req[w].user] = 0]
  <2>1. Calls(w, op) /\ req[w].pc = "authed"
    BY <1>10 DEF PrefRead, Permitted
  <2>2. req[w].user \in User
    BY <2>1 DEF RowsOK, ReqOK, Real
  <2>3. op.new <=> pref[op.user] = 0
    BY Zenon
  <2>4. op.kind = "pref" /\ op.user = req[w].user
    OBVIOUS
  <2> HIDE DEF op
  <2>5. CallOK(op)
    BY <2>2, <2>3, <2>4 DEF CallOK
  <2> QED
    BY <1>5, <2>1, <2>5
<1>11. ASSUME NEW w \in Worker, TriageCommit(w) \/ McpCommit(w) \/ AgentCommit(w) PROVE Kind(w)
  <2>1. Triages(w)
    BY <1>11, Zenon DEF TriageCommit, McpCommit, AgentCommit, Triages, Serving, Done
  <2> QED
    BY <2>1 DEF Kind
<1>12. ASSUME NEW w \in Worker, NoteCommit(w) PROVE Kind(w)
  <2>1. desk' = [desk EXCEPT ![w] = NoCall] /\ UNCHANGED <<alert, brand, pref, fed, last, torn>>
    BY <1>12 DEF NoteCommit, Done
  <2> QED
    BY <1>2, <1>3, <2>1
<1>13. ASSUME NEW w \in Worker, Analyst(w) PROVE Kind(w)
  <2>1. CASE BrandCommit(w) \/ PrefCommit(w)
    BY <2>1 DEF Kind
  <2> QED
    BY <1>8, <1>9, <1>10, <1>11, <1>12, <1>13, <2>1 DEF Analyst
<1>14. ASSUME NEW w \in Worker, Copilot(w) PROVE Kind(w)
  <2>1. ASSUME desk' = desk, UNCHANGED <<alert, brand, pref, fed, last, torn>> PROVE Kind(w)
    BY <1>2, <1>3, <2>1
  <2>2. ASSUME NEW act \in BOOLEAN, CopilotAsk(w, act) PROVE Kind(w)
    BY <2>1, <2>2 DEF CopilotAsk
  <2>3. ASSUME AgentReads(w) \/ AgentEnds(w) PROVE Kind(w)
    BY <2>1, <2>3 DEF AgentReads, AgentEnds
  <2> QED
    BY <1>8, <1>11, <1>14, <2>2, <2>3 DEF Copilot
<1> QED
  BY <1>1, <1>4, <1>7, <1>13, <1>14 DEF DeskNext

\* One worker's call ends, and what it wrote is what its call was about.
LEMMA EndKeepsCalls ==
    ASSUME CallsOK, NEW w \in Worker, desk' = [desk EXCEPT ![w] = NoCall], torn' = torn,
           Writing(w),
           \A a \in Alert : a \notin Subject(desk[w].op) => alert'[a] = alert[a],
           \A n \in BrandName : n \notin Subject(desk[w].op) => brand'[n] = brand[n],
           \A u \in User : u \notin Subject(desk[w].op) => pref'[u] = pref[u]
    PROVE  CallsOK'
<1>1. /\ desk' = [v \in Worker |-> desk'[v]] /\ \A v \in Worker \ {w} : desk'[v] = desk[v]
      /\ desk'[w].pc \notin {"read", "flushed"}
  BY DEF CallsOK, NoCall
<1>2. ASSUME NEW v \in Worker, desk'[v].pc = "read"
      PROVE  desk'[v] = [pc |-> "read", op |-> desk'[v].op]
  BY <1>1, <1>2 DEF CallsOK
<1>3. \A v \in Worker : \A x : Concerns(v, x)' => Concerns(v, x) /\ v # w
  BY <1>1 DEF Concerns, Writing
<1>4. ASSUME NEW x \in Alert \cup BrandName \cup User, x \notin torn'
      PROVE  \A v, z \in Worker : Concerns(v, x)' /\ Concerns(z, x)' => v = z
  BY <1>3, <1>4 DEF CallsOK
<1>5. ASSUME NEW v \in Worker, Writing(v)' PROVE CallOK(desk[v].op)' /\ desk'[v] = desk[v]
  <2> DEFINE op == desk[v].op
  <2>1. v # w /\ desk'[v] = desk[v] /\ Writing(v)
    BY <1>1, <1>5 DEF Writing
  <2>2. CallOK(op)
    BY <2>1 DEF CallsOK
  <2>3. ASSUME NEW x \in Alert \cup BrandName \cup User, x \in Subject(op), x \notin torn
        PROVE  x \notin Subject(desk[w].op)
    BY <2>1, <2>3 DEF CallsOK, Concerns
  <2>4. /\ op.kind \in {"triage", "mark"} => Subject(op) = {op.alert}
        /\ op.kind = "brand" => Subject(op) = {op.name}
        /\ op.kind = "pref" => Subject(op) = {op.user}
    BY Subjects
  <2> SUFFICES /\ op.kind \in {"triage", "mark"} =>
                     op.alert \in Alert /\ (op.alert \in torn \/ op.loaded = alert'[op.alert])
               /\ op.kind = "brand" =>
                     op.name \in BrandName /\ (op.name \in torn \/ brand'[op.name] = 0)
               /\ op.kind = "pref" =>
                     op.user \in User /\ (op.user \in torn \/ (op.new <=> pref'[op.user] = 0))
    BY <2>1 DEF CallOK
  <2> HIDE DEF op
  <2>5. op.kind \in {"triage", "mark"} =>
           op.alert \in Alert /\ (op.alert \in torn \/ op.loaded = alert'[op.alert])
    BY <2>2, <2>3, <2>4 DEF CallOK
  <2>6. op.kind = "brand" => op.name \in BrandName /\ (op.name \in torn \/ brand'[op.name] = 0)
    BY <2>2, <2>3, <2>4 DEF CallOK
  <2>7. op.kind = "pref" =>
           op.user \in User /\ (op.user \in torn \/ (op.new <=> pref'[op.user] = 0))
    <3>1. ASSUME op.kind = "pref", op.user \notin torn
          PROVE  op.user \in User /\ pref'[op.user] = pref[op.user]
      BY <2>2, <2>3, <2>4, <3>1 DEF CallOK
    <3>2. op.kind = "pref" => op.user \in User /\ (op.user \in torn \/ (op.new <=> pref[op.user] = 0))
      BY <2>2, Zenon DEF CallOK
    <3> QED
      BY <3>1, <3>2, Zenon
  <2> QED
    BY <2>5, <2>6, <2>7
<1> QED
  BY <1>1, <1>2, <1>4, <1>5 DEF CallsOK

\* A call that has read joins those that are under way.
LEMMA ReadKeepsCalls ==
    ASSUME CallsOK, NEW w \in Worker, NEW op, Calls(w, op), CallOK(op)
    PROVE  CallsOK'
<1>1. /\ UNCHANGED <<alert, brand, pref>> /\ torn \subseteq torn'
      /\ \A x \in Subject(op) : (\E v \in Worker \ {w} : Concerns(v, x)) => x \in torn'
  BY DEF Calls, Concerns, Writing
<1>2. /\ desk' = [v \in Worker |-> desk'[v]] /\ \A v \in Worker \ {w} : desk'[v] = desk[v]
      /\ desk'[w] = [pc |-> "read", op |-> op]
  BY DEF Calls, CallsOK
<1>3. desk'[w].pc = "read" /\ desk'[w].op = op
  BY <1>2
<1>4. ASSUME NEW v \in Worker, desk'[v].pc = "read"
      PROVE  desk'[v] = [pc |-> "read", op |-> desk'[v].op]
  BY <1>2, <1>4 DEF CallsOK
<1>5. ASSUME NEW o, CallOK(o) PROVE CallOK(o)'
  BY <1>1, <1>5 DEF CallOK
<1>6. ASSUME NEW v \in Worker, Writing(v)', NEW o, o = desk'[v].op PROVE CallOK(o)'
  <2>1. CASE v = w
    BY <1>3, <1>5, <1>6, <2>1
  <2>2. CASE v # w
    <3>1. desk'[v] = desk[v] /\ CallOK(o)
      BY <1>2, <1>6, <2>2 DEF Writing, CallsOK
    <3> QED
      BY <1>5, <3>1
  <2> QED
    BY <2>1, <2>2
<1>8. (\A v \in Worker : Writing(v) => CallOK(desk[v].op))'
  BY <1>6 DEF CallOK
<1>7. ASSUME NEW x \in Alert \cup BrandName \cup User, x \notin torn'
      PROVE  \A v, z \in Worker : Concerns(v, x)' /\ Concerns(z, x)' => v = z
  <2>1. \A v \in Worker \ {w} : Concerns(v, x)' <=> Concerns(v, x)
    BY <1>2 DEF Concerns, Writing
  <2>2. Concerns(w, x)' <=> x \in Subject(op)
    BY <1>3 DEF Concerns, Writing
  <2>3. \A v, z \in Worker : Concerns(v, x) /\ Concerns(z, x) => v = z
    BY <1>1, <1>7 DEF CallsOK
  <2>4. x \in Subject(op) => \A v \in Worker \ {w} : ~Concerns(v, x)
    BY <1>1, <1>7
  <2> QED
    BY <2>1, <2>2, <2>3, <2>4
<1> QED
  BY <1>2, <1>4, <1>7, <1>8 DEF CallsOK

\* What was appended last is a suffix.
LEMMA AppendedIsSuffix ==
    ASSUME NEW S, NEW s \in Seq(S), NEW t \in Seq(S)
    PROVE  IsSuffix(s, t \o s)
<1> DEFINE ts == t \o s
           m == Len(s)
           n == Len(ts)
<1>1. /\ m \in Nat /\ n \in Nat /\ n = Len(t) + m /\ Len(t) \in Nat /\ ts \in Seq(S)
      /\ \A i \in 1..m : ts[Len(t) + i] = s[i]
  OBVIOUS
<1>2. m <= n
  BY <1>1
<1> DEFINE rs == [i \in 1..m |-> s[(m - i) + 1]]
           rt == [i \in 1..n |-> ts[(n - i) + 1]]
<1>3. Reverse(s) = rs /\ Reverse(ts) = rt
  BY DEF Reverse
<1> HIDE DEF ts, m, n
<1>4. rs \in Seq(S) /\ Len(rs) = m
  <2>1. \A i \in 1..m : (m - i) + 1 \in 1..m
    BY <1>1
  <2> QED
    BY <1>1, <2>1 DEF m
<1>5. rt \in Seq(S) /\ Len(rt) = n
  <2>1. \A i \in 1..n : (n - i) + 1 \in 1..n
    BY <1>1
  <2> QED
    <3>1. n = Len(ts) /\ ts \in Seq(S) /\ n \in Nat
      BY <1>1 DEF n
    <3>2. \A i \in 1..n : ts[(n - i) + 1] \in S
      BY <2>1, <3>1
    <3> QED
      BY <3>1, <3>2
<1>6. \A i \in 1..m : rs[i] = rt[i]
  <2>1. ASSUME NEW i \in 1..m PROVE rs[i] = rt[i]
    <3>1. (m - i) + 1 \in 1..m /\ (n - i) + 1 = Len(t) + ((m - i) + 1) /\ i \in 1..n
      BY <1>1
    <3>2. rs[i] = s[(m - i) + 1] /\ rt[i] = ts[(n - i) + 1]
      BY <3>1
    <3> QED
      BY <1>1, <3>1, <3>2
  <2> QED
    BY <2>1
<1> HIDE DEF rs, rt
<1>7. SubSeq(rs, 1, m) = SubSeq(rt, 1, m)
  <2>1. /\ SubSeq(rs, 1, m) \in Seq(S) /\ Len(SubSeq(rs, 1, m)) = m
        /\ \A i \in 1..m : SubSeq(rs, 1, m)[i] = rs[i]
    BY <1>1, <1>4
  <2>2. /\ SubSeq(rt, 1, m) \in Seq(S) /\ Len(SubSeq(rt, 1, m)) = m
        /\ \A i \in 1..m : SubSeq(rt, 1, m)[i] = rt[i]
    BY <1>1, <1>2, <1>5
  <2> QED
    BY <1>6, <2>1, <2>2
<1>8. IsPrefix(rs, rt)
  BY <1>2, <1>4, <1>5, <1>7 DEF IsPrefix
<1> QED
  BY <1>3, <1>8 DEF IsSuffix, ts

\* A triage that raced no other is shown whole.
LEMMA TriageKeepsData ==
    ASSUME CallsOK, DataOK, NEW w \in Worker, Triages(w)
    PROVE  CallsOK' /\ DataOK'
<1>1. /\ desk[w].pc = "flushed" /\ desk[w].op.kind \in {"triage", "mark"}
      /\ desk' = [desk EXCEPT ![w] = NoCall] /\ UNCHANGED <<brand, pref, torn>>
  BY DEF Triages
<1>2. CallOK(desk[w].op) /\ Subject(desk[w].op) = {desk[w].op.alert}
  BY <1>1, Subjects DEF CallsOK, Writing
<1>3. PICK op : op = desk[w].op
  OBVIOUS
<1>4. PICK a \in Alert : a = op.alert
  BY <1>1, <1>2, <1>3 DEF CallOK
<1>5. /\ alert' = [alert EXCEPT ![a] = Columns(alert[a], op)]
      /\ last' = [last EXCEPT ![a] = [status |-> op.status, by |-> op.by, kind |-> op.kind]]
      /\ fed' = IF op.kind = "triage" THEN [fed EXCEPT ![a] = fed[a] \o Outcome(op.status)]
                ELSE fed
  BY <1>3, <1>4 DEF Triages, UpdateTriage
<1>6. \A b \in Alert \ {a} : alert'[b] = alert[b] /\ last'[b] = last[b] /\ fed'[b] = fed[b]
  BY <1>5 DEF DataOK
<1>7. CallsOK'
  <2>1. \A b \in Alert : b \notin Subject(desk[w].op) => alert'[b] = alert[b]
    BY <1>2, <1>3, <1>4, <1>6
  <2>2. Writing(w)
    BY <1>1 DEF Writing
  <2> QED
    BY <1>1, <2>1, <2>2, EndKeepsCalls
<1>8. /\ last'[a] = [status |-> op.status, by |-> op.by, kind |-> op.kind]
      /\ alert'[a] = Columns(alert[a], op)
      /\ alert' = [b \in Alert |-> alert'[b]] /\ last' = [b \in Alert |-> last'[b]]
  BY <1>5 DEF DataOK
<1>9. /\ {"status", "by"} \subseteq DOMAIN alert'[a]
      /\ a \notin torn => alert'[a].status = op.status /\ alert'[a].by = op.by
  <2>1. {"status", "by"} \subseteq DOMAIN alert[a]
    BY DEF DataOK
  <2>2. a \notin torn => op.loaded = alert[a]
    BY <1>1, <1>2, <1>3, <1>4 DEF CallOK
  <2> QED
    BY <1>8, <2>1, <2>2 DEF Columns
<1>10. Outcome(op.status) \in Seq({"true_positive", "false_positive"})
  <2>1. CASE op.status = "confirmed"
    BY <2>1 DEF Outcome
  <2>2. CASE op.status = "dismissed"
    BY <2>2 DEF Outcome
  <2>3. CASE op.status \notin {"confirmed", "dismissed"}
    <3>1. Outcome(op.status) = <<>>
      BY <2>3 DEF Outcome
    <3> QED
      BY <3>1
  <2> QED
    BY <2>1, <2>2, <2>3
<1>11. fed' \in [Alert -> Seq({"true_positive", "false_positive"})]
       /\ (op.kind = "triage" => IsSuffix(Outcome(op.status), fed'[a]))
  <2> DEFINE S == {"true_positive", "false_positive"}
             s == Outcome(op.status)
  <2>1. fed \in [Alert -> Seq(S)] /\ fed[a] \in Seq(S) /\ s \in Seq(S)
    BY <1>10 DEF DataOK
  <2>2. IsSuffix(s, fed[a] \o s)
    BY <2>1, AppendedIsSuffix
  <2>3. fed[a] \o s \in Seq(S)
    BY <2>1
  <2> HIDE DEF s, S
  <2>4. op.kind = "triage" => fed' = [fed EXCEPT ![a] = fed[a] \o s]
    BY <1>5 DEF s
  <2>5. op.kind # "triage" => fed' = fed
    BY <1>5
  <2>6. fed' \in [Alert -> Seq(S)] /\ (op.kind = "triage" => fed'[a] = fed[a] \o s)
    BY <2>1, <2>3, <2>4, <2>5
  <2> QED
    BY <2>2, <2>6 DEF s, S
<1>12. a \in torn \/ Whole(a)'
  <2>1. ASSUME a \notin torn
        PROVE  /\ alert'[a].status = op.status /\ alert'[a].by = op.by
               /\ last'[a].status = op.status /\ last'[a].by = op.by /\ last'[a].kind = op.kind
    BY <1>8, <1>9, <2>1
  <2> QED
    BY <1>11, <2>1 DEF Whole
<1>13. \A b \in Alert \ {a} : Whole(b) => Whole(b)'
  BY <1>6 DEF Whole
<1>14. (\A b \in Alert : b \in torn \/ Whole(b))'
  BY <1>1, <1>12, <1>13 DEF DataOK
<1>15. \A b \in Alert : {"status", "by"} \subseteq DOMAIN alert'[b]
  BY <1>6, <1>9 DEF DataOK
<1>16. DataOK'
  BY <1>1, <1>8, <1>11, <1>14, <1>15 DEF DataOK
<1> QED
  BY <1>7, <1>16

\* A row that raced no other is the only one.
LEMMA InsertKeepsData ==
    ASSUME CallsOK, DataOK, NEW w \in Worker, BrandCommit(w) \/ PrefCommit(w)
    PROVE  CallsOK' /\ DataOK'
<1>1. /\ desk[w].pc = "flushed" /\ desk' = [desk EXCEPT ![w] = NoCall] /\ Writing(w)
      /\ UNCHANGED <<alert, fed, last, torn>> /\ CallOK(desk[w].op)
  BY DEF BrandCommit, PrefCommit, Serving, Done, Writing, CallsOK
<1>2. PICK op : op = desk[w].op
  OBVIOUS
<1>3. CASE BrandCommit(w)
  <2>1. /\ op.kind = "brand" /\ UNCHANGED pref /\ Subject(op) = {op.name}
        /\ brand' = [brand EXCEPT ![op.name] = @ + 1]
    BY <1>2, <1>3, Subjects DEF BrandCommit, Serving
  <2>2. op.name \in BrandName /\ (op.name \in torn \/ brand[op.name] = 0)
    BY <1>1, <1>2, <2>1 DEF CallOK
  <2>3. brand' \in [BrandName -> Nat]
    BY <2>1, <2>2 DEF DataOK
  <2>4. \A n \in BrandName : brand'[n] = IF n = op.name THEN brand[n] + 1 ELSE brand[n]
    BY <2>1 DEF DataOK
  <2>5. CallsOK'
    BY <1>1, <1>2, <2>1, <2>4, EndKeepsCalls
  <2>6. \A n \in BrandName : n \in torn \/ brand'[n] <= 1
    BY <2>2, <2>4 DEF DataOK
  <2> QED
    BY <1>1, <2>1, <2>3, <2>5, <2>6 DEF DataOK, Whole
<1>4. CASE PrefCommit(w)
  <2>1. /\ op.kind = "pref" /\ UNCHANGED brand /\ Subject(op) = {op.user}
        /\ pref' = [pref EXCEPT ![op.user] = IF op.new THEN pref[op.user] + 1 ELSE pref[op.user]]
    BY <1>2, <1>4, Subjects DEF PrefCommit, Serving, DataOK
  <2>2. op.user \in User
    BY <1>1, <1>2, <2>1 DEF CallOK
  <2>3. op.user \in torn \/ (op.new <=> pref[op.user] = 0)
    BY <1>1, <1>2, <2>1, Zenon DEF CallOK
  <2>4. pref[op.user] \in Nat
    BY <2>2 DEF DataOK
  <2>5. PICK n \in Nat : /\ pref' = [pref EXCEPT ![op.user] = n]
                         /\ op.user \in torn \/ n <= 1 \/ n = pref[op.user]
    <3>1. CASE op.new
      <4>1. pref' = [pref EXCEPT ![op.user] = pref[op.user] + 1]
        BY <2>1, <3>1
      <4>2. op.user \in torn \/ pref[op.user] = 0
        BY <2>3, <3>1, Zenon
      <4>3. /\ pref[op.user] + 1 \in Nat
            /\ op.user \in torn \/ pref[op.user] + 1 <= 1
        BY <2>4, <4>2
      <4> QED
        BY <4>1, <4>3
    <3>2. CASE ~op.new
      <4>1. pref' = [pref EXCEPT ![op.user] = pref[op.user]]
        BY <2>1, <3>2
      <4> QED
        BY <2>4, <4>1
    <3> QED
      BY <3>1, <3>2
  <2>6. pref' \in [User -> Nat] /\ \A u \in User : pref'[u] = IF u = op.user THEN n ELSE pref[u]
    BY <2>5 DEF DataOK
  <2>7. CallsOK'
    BY <1>1, <1>2, <2>1, <2>6, EndKeepsCalls
  <2>8. \A u \in User : u \in torn \/ pref'[u] <= 1
    BY <2>2, <2>5, <2>6 DEF DataOK
  <2> QED
    BY <1>1, <2>1, <2>6, <2>7, <2>8 DEF DataOK, Whole
<1> QED
  BY <1>3, <1>4

LEMMA StepKeepsData ==
    ASSUME RowsOK, CallsOK, DataOK, [DeskNext]_vars
    PROVE  CallsOK' /\ DataOK'
<1>1. CASE UNCHANGED <<desk, alert, brand, pref, fed, last, torn>>
  BY <1>1 DEF CallsOK, DataOK, Writing, Concerns, CallOK, Whole
<1>2. ASSUME NEW w \in Worker, Rests(w) PROVE CallsOK' /\ DataOK'
  <2>1. /\ UNCHANGED <<alert, brand, pref, fed, last, torn>>
        /\ desk' = [v \in Worker |-> desk'[v]]
        /\ \A v \in Worker : Writing(v)' => Writing(v) /\ desk'[v].op = desk[v].op
        /\ \A v \in Worker : desk'[v].pc = "read" => desk'[v] = desk[v]
    BY <1>2 DEF Rests, Writing
  <2>2. \A v \in Worker : \A x : Concerns(v, x)' => Concerns(v, x)
    BY <2>1 DEF Concerns
  <2>3. (\A v \in Worker : Writing(v) => CallOK(desk[v].op))'
    BY <2>1 DEF CallsOK, CallOK
  <2>4. (\A x \in Alert \cup BrandName \cup User : x \in torn \/
           \A v, z \in Worker : Concerns(v, x) /\ Concerns(z, x) => v = z)'
    BY <2>1, <2>2 DEF CallsOK
  <2>5. \A v \in Worker : desk'[v].pc = "read" => desk'[v] = [pc |-> "read", op |-> desk'[v].op]
    BY <2>1 DEF CallsOK
  <2> QED
    BY <2>1, <2>3, <2>4, <2>5 DEF CallsOK, DataOK, Whole
<1>3. ASSUME NEW w \in Worker, NEW op, Calls(w, op), CallOK(op) PROVE CallsOK' /\ DataOK'
  <2>1. UNCHANGED <<alert, brand, pref, fed, last>> /\ torn \subseteq torn'
    BY <1>3 DEF Calls
  <2>2. \A a \in Alert : Whole(a) => Whole(a)'
    BY <2>1 DEF Whole
  <2>3. (\A a \in Alert : a \in torn \/ Whole(a))'
    BY <2>1, <2>2 DEF DataOK
  <2>4. DataOK'
    BY <2>1, <2>3 DEF DataOK
  <2> QED
    BY <1>3, <2>4, ReadKeepsCalls
<1> QED
  BY <1>1, <1>2, <1>3, TriageKeepsData, InsertKeepsData, KindsOfSteps DEF Kind

LEMMA InitHasData == ASSUME DeskInit PROVE CallsOK /\ DataOK
<1>1. \A w \in Worker : desk[w] = NoCall
  BY DEF DeskInit
<1>2. CallsOK
  BY <1>1 DEF DeskInit, CallsOK, NoCall, Writing, Concerns
<1>3. ASSUME NEW a \in Alert PROVE Whole(a) /\ {"status", "by"} \subseteq DOMAIN alert[a]
  BY DEF DeskInit, Whole
<1>4. /\ fed \in [Alert -> Seq({"true_positive", "false_positive"})]
      /\ brand \in [BrandName -> Nat] /\ pref \in [User -> Nat]
      /\ \A n \in BrandName : brand[n] <= 1
      /\ \A u \in User : pref[u] <= 1
  BY DEF DeskInit
<1>5. alert = [a \in Alert |-> alert[a]] /\ last = [a \in Alert |-> last[a]]
  BY DEF DeskInit
<1> QED
  BY <1>2, <1>3, <1>4, <1>5 DEF DataOK

LEMMA DataInvariant == DeskSpec => [](CallsOK /\ DataOK)
<1>1. RowsOK /\ CallsOK /\ DataOK /\ [DeskNext]_vars => (CallsOK /\ DataOK)'
  BY StepKeepsData
<1> QED
  BY <1>1, InitHasData, RowsInvariant, PTL DEF DeskSpec

\* Any number of analysts, MCP hosts and copilots: an alert shows the status and
\* the analyst of one triage, and the feedback of the last one through the API,
\* unless two of them had both loaded the row before either wrote it.
THEOREM TriageAlwaysWhole == DeskSpec => []TriageIsWhole
<1>1. DataOK => TriageIsWhole
  BY DEF DataOK, Whole, TriageIsWhole
<1> QED
  BY <1>1, DataInvariant, PTL

\* A name or a preference is stored twice only when two requests had both looked
\* it up before either inserted it.
THEOREM TwinsAreRaced == DeskSpec => []NoTwins
<1>1. DataOK => NoTwins
  BY DEF DataOK, NoTwins
<1> QED
  BY <1>1, DataInvariant, PTL
=============================================================================
